---- MODULE Spec2Model ----
(***************************************************************************)
(* A model of the character deformation core of ComfyUI_VNCCS:            *)
(*   - Skeleton.fromFile: breadth-first bone ordering, bone construction, *)
(*     weights loading and weight retargeting   (CharacterData/mh_skeleton) *)
(*   - VertexBoneWeights._build_vertex_weights_data                       *)
(*   - linear blend skinning in the preview endpoint and in Pose Studio   *)
(*   - HumanSolver.solve_mesh, calculate_factors and TargetParser          *)
(*                                               (CharacterData/mh_parser) *)
(*   - IKSolver.solve_ik                                (nodes/ik_solver) *)
(*   - PoseTransfer.apply_pose                      (nodes/pose_transfer) *)
(*   - Skeleton.copy, updateJointPositions and the Bone.update sweep      *)
(*   - _ensure_data_loaded and its cache         (nodes/character_studio) *)
(* Real numbers are modelled exactly: weights are fractions <<n, d>> or   *)
(* integers in a stated unit, positions are integer vectors.              *)
(***************************************************************************)
EXTENDS Integers, Sequences, FiniteSets, TLC

VARIABLES
    \* ---- Skeleton.fromFile ----
    pc,                 \* position of fromFile
    input_bones,        \* skelData["bones"]: bone name -> parent name
    input_keys,         \* key order of skelData["bones"]
    pending,            \* list of bone names still to order
    scan,               \* the part of the copy pending[:] not yet visited
    added,              \* set of ordered bone names
    breadthfirst_bones, \* the ordering computed
    progress,           \* progress flag of the current pass
    bones,              \* Skeleton.bones: name -> Bone
    boneslist,          \* Skeleton.boneslist
    roots,              \* Skeleton.roots
    vertexWeights,      \* Skeleton.vertexWeights (NoWeights or a VertexBoneWeights)
    raised,             \* exception leaving fromFile ("" when none)
    rig,                \* which rig file is read (its bones' reference entries)
    \* ---- VertexBoneWeights(data, vertexCount, rootBone) ----
    w_input,            \* the raw "weights" object: bone -> list of [vertex, weight]
    w_count,            \* the vertexCount argument (NoCount for None)
    vbw,                \* the VertexBoneWeights object constructed (NoWeights before)
    \* ---- Skeleton._retarget_weights ----
    r_bones,            \* Skeleton.boneslist: the bones, with their reference lists
    r_vw,               \* Skeleton.vertexWeights
    r_source,           \* the weights data as loaded, before retargeting
    r_done,             \* _retarget_weights has returned
    \* ---- linear blend skinning ----
    s_bones,            \* the cached skeleton's bones: name -> pose matrices
    s_weights,          \* skel.vertexWeights.data: bone -> (indices, weights)
    s_result,           \* the last request served: path, request, poses skinned, vertices
    \* ---- HumanSolver.solve_mesh ----
    m_given,            \* the inputs as they were before any call
    m_heap,             \* the vertex arrays alive, by address
    m_targets,          \* the target entries (tags, data)
    m_factors,          \* the factor table
    m_first,            \* the first call: order of the target list, array returned
    m_last,             \* the latest later call
    \* ---- HumanSolver.calculate_factors ----
    f_input,            \* the slider values passed: age, gender, weight, muscle, ...
    f_factors,          \* the factor table returned (NoFactors before the call)
    \* ---- TargetParser.scan_targets / load_target_data ----
    t_files,            \* the files under the three target folders, with their lines
    t_todo,             \* the files os.walk has not yielded yet
    t_pc,               \* "scan" while scan_targets runs, "ready" after, "off"
    t_targets,          \* all_targets: the entries kept, in order
    t_first,            \* per entry, what its first load_target_data call returned
    t_call,             \* the latest later load_target_data call on an entry
    t_out,              \* what solve_mesh returned on the scanned targets
    \* ---- IKSolver.solve_ik ----
    k_bones,            \* the skeleton's bones: name -> pose matrices
    k_before,           \* the bones as they were when solve_ik was called
    k_call,             \* the arguments: bone_name, target_pos, chain_length, max_iterations
    k_chain,            \* chain: bone names, end effector first
    k_pc,               \* position of solve_ik: "idle", "pass", "bone", "extract", "done"
    k_iteration,        \* passes of the CCD loop begun
    k_idx,              \* position of the for loop over the chain
    k_cur,              \* cur_global: the end effector's head, posed
    k_rotations,        \* rotations applied to a bone's local pose
    k_result,           \* the dict returned (NoResult before the return)
    \* ---- PoseTransfer.apply_pose ----
    p_bones,            \* the skeleton's bones: name -> head, tail, pose matrices
    p_data,             \* openpose_data: landmark name -> position
    p_pc,               \* position of apply_pose: "reset", "chains", "done"
    p_idx,              \* position of the for loop over CHAINS
    p_aligned,          \* the bones a chain entry has given a local pose, in order
    \* ---- Skeleton.copy and the update sweep ----
    u_pc,               \* "idle" until a skeleton is swept, then "swept"; "off"
    u_path,             \* the skeleton swept: "loaded" (by fromFile) or "copy" (its copy)
    u_skel,             \* the skeleton swept: bones, boneslist, roots and pose matrices
    \* ---- solve_mesh: the weight of each target ----
    e_pc,               \* "idle" until the targets are weighed, then "done"; "off"
    e_weights,          \* per target: whether the loop kept it relevant, and its weight
    \* ---- _ensure_data_loaded: the shared cache and its callers ----
    l_files,            \* which of the data files exist on disk
    l_cache,            \* CHARACTER_STUDIO_CACHE
    l_pc,               \* per caller: the statement of _ensure_data_loaded it is at; "off"
    l_calls             \* number of calls begun so far

skelVars == <<pc, rig, input_bones, input_keys, pending, scan, added,
              breadthfirst_bones, progress, bones, boneslist, roots,
              vertexWeights, raised>>

wVars == <<w_input, w_count, vbw>>

rVars == <<r_bones, r_vw, r_source, r_done>>

sVars == <<s_bones, s_weights, s_result>>

mVars == <<m_given, m_heap, m_targets, m_factors, m_first, m_last>>

fVars == <<f_input, f_factors>>

tVars == <<t_files, t_todo, t_pc, t_targets, t_first, t_call, t_out>>

kVars == <<k_bones, k_before, k_call, k_chain, k_pc,
           k_iteration, k_idx, k_cur, k_rotations, k_result>>

pVars == <<p_bones, p_data, p_pc, p_idx, p_aligned>>

uVars == <<u_pc, u_path, u_skel>>

eVars == <<e_pc, e_weights>>

lVars == <<l_files, l_cache, l_pc, l_calls>>

vars == <<skelVars, wVars, rVars, sVars, mVars, fVars,
          tVars, kVars, pVars, uVars, eVars, lVars>>

\* the variables each part of the program leaves alone
notSkel == <<wVars, rVars, sVars, mVars, fVars,
             tVars, kVars, pVars, uVars, eVars, lVars>>
notW == <<skelVars, rVars, sVars, mVars, fVars,
          tVars, kVars, pVars, uVars, eVars, lVars>>
notR == <<skelVars, wVars, sVars, mVars, fVars,
          tVars, kVars, pVars, uVars, eVars, lVars>>
notS == <<skelVars, wVars, rVars, mVars, fVars,
          tVars, kVars, pVars, uVars, eVars, lVars>>
notM == <<skelVars, wVars, rVars, sVars, fVars,
          tVars, kVars, pVars, uVars, eVars, lVars>>
notF == <<skelVars, wVars, rVars, sVars, mVars,
          tVars, kVars, pVars, uVars, eVars, lVars>>
notT == <<skelVars, wVars, rVars, sVars, mVars,
          fVars, kVars, pVars, uVars, eVars, lVars>>
notK == <<skelVars, wVars, rVars, sVars, mVars,
          fVars, tVars, pVars, uVars, eVars, lVars>>
notP == <<skelVars, wVars, rVars, sVars, mVars,
          fVars, tVars, kVars, uVars, eVars, lVars>>
notU == <<skelVars, wVars, rVars, sVars, mVars,
          fVars, tVars, kVars, pVars, eVars, lVars>>
notE == <<skelVars, wVars, rVars, sVars, mVars,
          fVars, tVars, kVars, pVars, uVars, lVars>>
notL == <<skelVars, wVars, rVars, sVars, mVars,
          fVars, tVars, kVars, pVars, uVars, eVars>>

(***************************************************************************)
(* Generic helpers                                                         *)
(***************************************************************************)
Range(s) == {s[i] : i \in DOMAIN s}

RECURSIVE SeqOfSet(_)
SeqOfSet(S) ==
    IF S = {} THEN <<>>
    ELSE LET x == CHOOSE y \in S : TRUE IN <<x>> \o SeqOfSet(S \ {x})

Perms(S) == {p \in [1..Cardinality(S) -> S] : \A x \in S : \E i \in DOMAIN p : p[i] = x}

\* list.remove(x): drop the first occurrence of x
RECURSIVE RemoveFirst(_, _)
RemoveFirst(s, x) ==
    IF s = <<>> THEN <<>>
    ELSE IF Head(s) = x THEN Tail(s)
    ELSE <<Head(s)>> \o RemoveFirst(Tail(s), x)

(***************************************************************************)
(* Skeleton.fromFile: breadth-first ordering                               *)
(***************************************************************************)
\* Bound: number of bones in the skeleton definition
NBones == 3

AllBoneNames == <<"pelvis", "clavicle_l", "upperarm_l", "head", "spine_03">>
BoneNames == {AllBoneNames[i] : i \in 1..NBones}

\* bdef.get("parent", None): None and "" are both falsy
NoParent == ""
\* a parent name that no bone definition carries
MissingName == "missing"

ParentValues == BoneNames \cup {NoParent, MissingName}

NoWeights == [loaded |-> FALSE]

SortInit ==
    /\ input_bones \in [BoneNames -> ParentValues]
    /\ input_keys \in Perms(BoneNames)
    /\ pending = input_keys
    /\ scan = <<>>
    /\ added = {}
    /\ breadthfirst_bones = <<>>
    /\ progress = FALSE
    /\ pc = "while"

\* while pending: progress = False; for bname in pending[:]
PassBegin ==
    /\ UNCHANGED notSkel
    /\ pc = "while"
    /\ IF pending # <<>>
       THEN /\ progress' = FALSE
            /\ scan' = pending
            /\ pc' = "for"
       ELSE /\ pc' = "addBones"
            /\ UNCHANGED <<progress, scan>>
    /\ UNCHANGED <<rig, input_bones, input_keys, pending, added, breadthfirst_bones,
                   bones, boneslist, roots, vertexWeights, raised>>

\* (mutant) the parent only has to be a defined bone, not an ordered one
ResolvableIfDefined(parent, addedSet) == parent = NoParent \/ parent \in BoneNames

\* the test of line 305
Resolvable(parent, addedSet) == parent = NoParent \/ parent \in addedSet

\* one iteration of the for loop
ForStep ==
    /\ UNCHANGED notSkel
    /\ pc = "for"
    /\ scan # <<>>
    /\ LET bname == Head(scan)
           parent == input_bones[bname]
       IN  IF Resolvable(parent, added)
           THEN /\ breadthfirst_bones' = Append(breadthfirst_bones, bname)
                /\ added' = added \cup {bname}
                /\ pending' = RemoveFirst(pending, bname)
                /\ progress' = TRUE
           ELSE UNCHANGED <<breadthfirst_bones, added, pending, progress>>
    /\ scan' = Tail(scan)
    /\ UNCHANGED <<pc, rig, input_bones, input_keys, bones, boneslist, roots,
                   vertexWeights, raised>>

\* end of a pass: break when nothing was promoted
PassEnd ==
    /\ UNCHANGED notSkel
    /\ pc = "for"
    /\ scan = <<>>
    /\ pc' = IF ~progress /\ pending # <<>> THEN "addBones" ELSE "while"
    /\ UNCHANGED <<rig, input_bones, input_keys, pending, scan, added,
                   breadthfirst_bones, progress, bones, boneslist, roots,
                   vertexWeights, raised>>

(***************************************************************************)
(* Exact weights: a weight is a fraction <<n, d>>. 0/0 (numpy's nan, the   *)
(* result of dividing by a zero total) compares False with everything.     *)
(***************************************************************************)
FAdd(a, b) == IF a[2] = b[2] THEN <<a[1] + b[1], a[2]>>
              ELSE <<a[1] * b[2] + b[1] * a[2], a[2] * b[2]>>
FEq(a, b) == a[2] # 0 /\ b[2] # 0 /\ a[1] * b[2] = b[1] * a[2]
FGt(a, b) == a[2] # 0 /\ b[2] # 0 /\ a[1] * b[2] > b[1] * a[2]
FZero == <<0, 1>>
FOne == <<1, 1>>

RECURSIVE FSum(_)
FSum(s) == IF s = <<>> THEN FZero
           ELSE IF Len(s) = 1 THEN s[1] ELSE FAdd(s[1], FSum(Tail(s)))

\* index of the first occurrence of x in s, 0 when absent
RECURSIVE IndexOf(_, _)
IndexOf(s, x) ==
    IF s = <<>> THEN 0
    ELSE IF Head(s) = x THEN 1
    ELSE LET r == IndexOf(Tail(s), x) IN IF r = 0 THEN 0 ELSE r + 1

\* np.argsort on distinct integers: the positions of s in ascending order of value
RECURSIVE ArgSort(_, _)
ArgSort(s, left) ==
    IF left = {} THEN <<>>
    ELSE LET i == CHOOSE j \in left : \A k \in left : s[j] < s[k] \/ (s[j] = s[k] /\ j <= k)
         IN <<i>> \o ArgSort(s, left \ {i})

Take(s, idx) == [k \in DOMAIN idx |-> s[idx[k]]]

\* the positions of s, ascending, whose element is in the set S
PositionsIn(s, S) ==
    LET F[i \in 0..Len(s)] ==
            IF i = 0 THEN <<>>
            ELSE IF s[i] \in S THEN Append(F[i - 1], i) ELSE F[i - 1]
    IN F[Len(s)]

\* an OrderedDict: the keys in insertion order and the value of each key
EmptyDict == [keys |-> <<>>, val |-> <<>>]
DictHas(d, k) == \E i \in DOMAIN d.keys : d.keys[i] = k
DictGet(d, k) == d.val[IndexOf(d.keys, k)]
DictSet(d, k, v) ==
    IF DictHas(d, k)
    THEN [d EXCEPT !.val[IndexOf(d.keys, k)] = v]
    ELSE [keys |-> Append(d.keys, k), val |-> Append(d.val, v)]

(***************************************************************************)
(* VertexBoneWeights._build_vertex_weights_data (raw input: the lists of   *)
(* [vertex, weight] pairs a weights file holds for each bone)              *)
(***************************************************************************)
\* WEIGHT_THRESHOLD = 1e-4 = 1 / WeightThresholdInv
WeightThresholdInv == 10000
WEIGHT_THRESHOLD == <<1, WeightThresholdInv>>

\* vertexCount=None
NoCount == -1

MaxOf(S) == CHOOSE m \in S : \A x \in S : x <= m

RawVerts(d) == UNION {{d.val[b][i][1] : i \in DOMAIN d.val[b]} : b \in DOMAIN d.val}

\* lines 58-63
VCount(d, vertexCount) ==
    IF vertexCount # NoCount THEN vertexCount
    ELSE IF RawVerts(d) # {} THEN MaxOf(RawVerts(d)) + 1 ELSE 0

\* the sum of the weights a vgroup gives vertex v
RECURSIVE GroupTotal(_, _)
GroupTotal(vgroup, v) ==
    IF vgroup = <<>> THEN 0
    ELSE (IF Head(vgroup)[1] = v THEN Head(vgroup)[2] ELSE 0) + GroupTotal(Tail(vgroup), v)

RECURSIVE SumGroups(_, _)
SumGroups(groups, v) ==
    IF groups = <<>> THEN 0 ELSE GroupTotal(Head(groups), v) + SumGroups(Tail(groups), v)

\* lines 65-69: wtot[vn] += w over every item of every group
WTot(d, vcount) == [v \in 0..(vcount - 1) |-> SumGroups(d.val, v)]

\* (mutant) a vertex listed twice in a group keeps its first weight only
RECURSIVE AccumulateFirstOnly(_, _, _, _)
AccumulateFirstOnly(vgroup, wtot, verts, weights) ==
    IF vgroup = <<>> THEN [verts |-> verts, weights |-> weights]
    ELSE LET vn == Head(vgroup)[1]
             w == <<Head(vgroup)[2], wtot[vn]>>
         IN IF IndexOf(verts, vn) # 0
            THEN AccumulateFirstOnly(Tail(vgroup), wtot, verts, weights)
            ELSE AccumulateFirstOnly(Tail(vgroup), wtot, Append(verts, vn), Append(weights, w))

\* lines 74-84: the lookup accumulation of one group, in order of first appearance
RECURSIVE Accumulate(_, _, _, _)
Accumulate(vgroup, wtot, verts, weights) ==
    IF vgroup = <<>> THEN [verts |-> verts, weights |-> weights]
    ELSE LET vn == Head(vgroup)[1]
             w == <<Head(vgroup)[2], wtot[vn]>>
             v_idx == IndexOf(verts, vn)
         IN IF v_idx # 0
            THEN Accumulate(Tail(vgroup), wtot, verts,
                            [weights EXCEPT ![v_idx] = FAdd(weights[v_idx], w)])
            ELSE Accumulate(Tail(vgroup), wtot, Append(verts, vn), Append(weights, w))

AboveThreshold(w) == FGt(w, WEIGHT_THRESHOLD)

\* lines 85-95: sort by vertex index, keep the weights above the threshold
BoneEntry(vgroup, wtot) ==
    LET acc == Accumulate(vgroup, wtot, <<>>, <<>>)
        i_s == ArgSort(acc.verts, DOMAIN acc.verts)
        verts == Take(acc.verts, i_s)
        weights == Take(acc.weights, i_s)
        keep == PositionsIn(weights, {w \in Range(weights) : AboveThreshold(w)})
    IN [vs |-> Take(verts, keep), ws |-> Take(weights, keep)]

\* lines 71-95: one entry per bone with a non-empty group, in key order
RECURSIVE BuildBones(_, _, _, _)
BuildBones(d, i, wtot, boneWeights) ==
    IF i > Len(d.keys) THEN boneWeights
    ELSE IF Len(d.val[i]) = 0 THEN BuildBones(d, i + 1, wtot, boneWeights)
    ELSE BuildBones(d, i + 1, wtot,
                    DictSet(boneWeights, d.keys[i], BoneEntry(d.val[i], wtot)))

\* line 105: np.argwhere(wtot == 0), ascending
ZeroTotal(wtot) ==
    LET Z == {v \in DOMAIN wtot : wtot[v] = 0}
        F[n \in -1..(Cardinality(DOMAIN wtot) - 1)] ==
            IF n = -1 THEN <<>> ELSE IF n \in Z THEN Append(F[n - 1], n) ELSE F[n - 1]
    IN F[Cardinality(DOMAIN wtot) - 1]

\* (mutant) the root entry is replaced by the vertices without weight
AssignRootReplacing(boneWeights, wtot, rootBone) ==
    LET rw_i == ZeroTotal(wtot)
    IN IF Len(rw_i) > 0
       THEN DictSet(boneWeights, rootBone, [vs |-> rw_i, ws |-> [k \in DOMAIN rw_i |-> FOne]])
       ELSE boneWeights

\* lines 97-111: the vertices without weight go to the root bone with weight 1
AssignRoot(boneWeights, wtot, rootBone) ==
    LET old == IF DictHas(boneWeights, rootBone) THEN DictGet(boneWeights, rootBone)
               ELSE [vs |-> <<>>, ws |-> <<>>]
        rw_i == ZeroTotal(wtot)
        vs == old.vs \o rw_i
        ws == old.ws \o [k \in DOMAIN rw_i |-> FOne]
    IN IF Len(vs) > 0 THEN DictSet(boneWeights, rootBone, [vs |-> vs, ws |-> ws])
       ELSE boneWeights

\* _build_vertex_weights_data: the VertexBoneWeights object built
BuildVertexWeightsData(vertexWeightsDict, vertexCount, rootBone) ==
    LET vcount == VCount(vertexWeightsDict, vertexCount)
        wtot == WTot(vertexWeightsDict, vcount)
    IN [loaded |-> TRUE,
        vertexCount |-> vcount,
        rootBone |-> rootBone,
        data |-> AssignRoot(BuildBones(vertexWeightsDict, 1, wtot, EmptyDict), wtot, rootBone)]

(***************************************************************************)
(* Skeleton._retarget_weights                                              *)
(***************************************************************************)
\* lines 406-419
extra_mapping ==
    << <<"clavicle_l", <<"scapula.L", "trapezius.L">> >>,
       <<"clavicle_r", <<"scapula.R", "trapezius.R">> >>,
       <<"upperarm_l", <<"deltoid.L">> >>,
       <<"upperarm_r", <<"deltoid.R">> >>,
       <<"spine_03", <<"latissimus.L", "latissimus.R", "pectoralis.L", "pectoralis.R">> >>,
       <<"pelvis", <<"gluteus.L", "gluteus.R">> >>,
       <<"head", <<"jaw", "eye.L", "eye.R", "tongue01", "tongue02", "tongue03", "tongue04",
                   "upperlid.L", "upperlid.R", "lowerlid.L", "lowerlid.R">> >> >>

\* lines 367-369: the explicit weight reference, else the standard reference
RefsOf(bone) ==
    IF bone.weight_reference_bones # {} THEN bone.weight_reference_bones
    ELSE bone.reference_bones

\* (mutant) a vertex already in combined takes the new weight instead of adding it
RECURSIVE MergeEntryOverwriting(_, _, _)
MergeEntryOverwriting(combined, entry, i) ==
    IF i > Len(entry.vs) THEN combined
    ELSE LET v == entry.vs[i]
             k == IndexOf(combined.vs, v)
         IN IF k = 0
            THEN MergeEntryOverwriting([vs |-> Append(combined.vs, v),
                                        ws |-> Append(combined.ws, entry.ws[i])],
                                       entry, i + 1)
            ELSE MergeEntryOverwriting([combined EXCEPT !.ws[k] = entry.ws[i]], entry, i + 1)

\* lines 381-384 and 433-436: add the weights of one source entry into combined
\* (combined: the vertices in insertion order, and their weights)
RECURSIVE MergeEntry(_, _, _)
MergeEntry(combined, entry, i) ==
    IF i > Len(entry.vs) THEN combined
    ELSE LET v == entry.vs[i]
             k == IndexOf(combined.vs, v)
         IN IF k = 0
            THEN MergeEntry([vs |-> Append(combined.vs, v),
                             ws |-> Append(combined.ws, FAdd(FZero, entry.ws[i]))],
                            entry, i + 1)
            ELSE MergeEntry([combined EXCEPT !.ws[k] = FAdd(combined.ws[k], entry.ws[i])],
                            entry, i + 1)

\* lines 378-384 and 430-437: merge every named source present in data
RECURSIVE MergeSources(_, _, _)
MergeSources(combined, names, data) ==
    IF names = <<>> THEN combined
    ELSE MergeSources(IF DictHas(data, Head(names))
                      THEN MergeEntry(combined, DictGet(data, Head(names)), 1)
                      ELSE combined,
                      Tail(names), data)

\* lines 388-394 and 441-444: the arrays sorted by vertex index
SortEntry(combined) ==
    LET idx_sorted == ArgSort(combined.vs, DOMAIN combined.vs)
    IN [vs |-> Take(combined.vs, idx_sorted), ws |-> Take(combined.ws, idx_sorted)]

\* lines 363-400: the loop over the bones of the skeleton
RECURSIVE RetargetBones(_, _, _)
RetargetBones(blist, data, new_weights_data) ==
    IF blist = <<>> THEN new_weights_data
    ELSE LET bone == Head(blist)
             refs == RefsOf(bone)
             combined_verts == MergeSources([vs |-> <<>>, ws |-> <<>>], SeqOfSet(refs), data)
         IN RetargetBones(Tail(blist), data,
                IF refs # {}
                THEN IF combined_verts.vs # <<>>
                     THEN DictSet(new_weights_data, bone.name, SortEntry(combined_verts))
                     ELSE new_weights_data
                ELSE IF DictHas(data, bone.name)
                     THEN DictSet(new_weights_data, bone.name, DictGet(data, bone.name))
                     ELSE new_weights_data)

\* lines 421-444: the supplementary mapping of helper bones
RECURSIVE ExtraCleanup(_, _, _)
ExtraCleanup(mapping, data, new_weights_data) ==
    IF mapping = <<>> THEN new_weights_data
    ELSE LET target_bone == Head(mapping)[1]
             sources == Head(mapping)[2]
             t == IF DictHas(new_weights_data, target_bone)
                  THEN DictGet(new_weights_data, target_bone)
                  ELSE [vs |-> <<>>, ws |-> <<>>]
             combined == MergeSources(t, sources, data)
             wasAdded == \E i \in DOMAIN sources : DictHas(data, sources[i])
         IN ExtraCleanup(Tail(mapping), data,
                IF DictHas(data, target_bone) /\ wasAdded
                THEN DictSet(new_weights_data, target_bone, SortEntry(combined))
                ELSE new_weights_data)

\* line 361-373: some bone of the skeleton references other bones
HasRetargeting(blist) == \E i \in DOMAIN blist : RefsOf(blist[i]) # {}

\* _retarget_weights: the weights object after the call
RetargetWeights(blist, vw) ==
    IF HasRetargeting(blist)
    THEN [vw EXCEPT !.data = ExtraCleanup(extra_mapping, vw.data,
                                          RetargetBones(blist, vw.data, EmptyDict))]
    ELSE vw

(***************************************************************************)
(* Skeleton.fromFile: bone construction, weights loading, retargeting      *)
(***************************************************************************)
\* Bound: len(mesh.vertices) of the mesh fromFile is given
SkelMeshVertexCount == 4

\* bone_defs.get("reference") of the rig file read: a rig whose bones reference
\* the bones of the weights file, or a rig without references
BoneDefReference(rigFile, name) ==
    IF rigFile # "game_engine" THEN {}
    ELSE CASE name = "clavicle_l" -> {"clavicle.L"}
           [] name = "upperarm_l" -> {"upperarm01.L", "upperarm02.L"}
           [] name = "head" -> {"head", "neck03"}
           [] OTHER -> {}

\* the "weights" object of the weights file next to the rig file
WeightsFileData ==
    [keys |-> <<"pelvis", "clavicle.L", "scapula.L", "upperarm01.L", "upperarm02.L", "head">>,
     val |-> << << <<0, 1>> >>,
                << <<1, 3>>, <<2, 1>> >>,
                << <<1, 1>> >>,
                << <<2, 1>> >>,
                << <<2, 2>> >>,
                << <<0, 1>> >> >>]

\* Bone.__init__ (lines 178-212): the parent is looked up in the skeleton
NewBone(skelBones, name, parentName, ref, w_ref) ==
    LET parent == IF parentName # NoParent /\ parentName \in DOMAIN skelBones
                  THEN parentName ELSE NoParent
    IN [name |-> name,
        parent |-> parent,
        level |-> IF parent # NoParent THEN skelBones[parent].level + 1 ELSE 0,
        reference_bones |-> ref,
        weight_reference_bones |-> w_ref]

BonesOf(skelBones, blist) == [i \in DOMAIN blist |-> skelBones[blist[i]]]

\* the chain of parents of a bone definition ends at a bone without parent
RECURSIVE RootedIn(_, _, _)
RootedIn(defs, name, fuel) ==
    IF name = NoParent THEN TRUE
    ELSE IF name \notin DOMAIN defs \/ fuel = 0 THEN FALSE
    ELSE RootedIn(defs, defs[name], fuel - 1)

\* lines 314-323 and addBone (452-457): one iteration of the construction loop
AddBoneStep ==
    /\ UNCHANGED notSkel
    /\ pc = "addBones"
    /\ Len(boneslist) < Len(breadthfirst_bones)
    /\ LET bone_name == breadthfirst_bones[Len(boneslist) + 1]
           bone == NewBone(bones, bone_name, input_bones[bone_name],
                           BoneDefReference(rig, bone_name), {})
       IN /\ bones' = [n \in DOMAIN bones \cup {bone_name} |->
                          IF n = bone_name THEN bone ELSE bones[n]]
          /\ boneslist' = Append(boneslist, bone_name)
          /\ roots' = IF bone.parent = NoParent THEN Append(roots, bone_name) ELSE roots
    /\ UNCHANGED <<pc, rig, input_bones, input_keys, pending, scan, added,
                   breadthfirst_bones, progress, vertexWeights, raised>>

AddBonesEnd ==
    /\ UNCHANGED notSkel
    /\ pc = "addBones"
    /\ Len(boneslist) = Len(breadthfirst_bones)
    /\ pc' = "weights"
    /\ UNCHANGED <<rig, input_bones, input_keys, pending, scan, added,
                   breadthfirst_bones, progress, bones, boneslist, roots,
                   vertexWeights, raised>>

\* lines 328-347: the weights file named by the rig file, or default_weights.mhw,
\* is loaded when it exists; self.roots[0] raises IndexError on an empty list;
\* the weights loaded are retargeted
LoadWeights ==
    /\ UNCHANGED notSkel
    /\ pc = "weights"
    /\ \E weights_file_key \in BOOLEAN, path_exists \in BOOLEAN :
          IF path_exists
          THEN IF roots = <<>>
               THEN /\ raised' = "IndexError"
                    /\ pc' = "raised"
                    /\ UNCHANGED vertexWeights
               ELSE /\ vertexWeights' =
                          RetargetWeights(BonesOf(bones, boneslist),
                              BuildVertexWeightsData(WeightsFileData, SkelMeshVertexCount,
                                                     roots[1]))
                    /\ pc' = "done"
                    /\ UNCHANGED raised
          ELSE /\ pc' = "done"
               /\ UNCHANGED <<vertexWeights, raised>>
    /\ UNCHANGED <<rig, input_bones, input_keys, pending, scan, added,
                   breadthfirst_bones, progress, bones, boneslist, roots>>

SkelInit ==
    /\ SortInit
    /\ rig \in {"default", "game_engine"}
    /\ bones = <<>>
    /\ boneslist = <<>>
    /\ roots = <<>>
    /\ vertexWeights = NoWeights
    /\ raised = ""

SkelIdle ==
    /\ pc = "off"
    /\ rig = "default"
    /\ input_bones = <<>>
    /\ input_keys = <<>>
    /\ pending = <<>>
    /\ scan = <<>>
    /\ added = {}
    /\ breadthfirst_bones = <<>>
    /\ progress = FALSE
    /\ bones = <<>>
    /\ boneslist = <<>>
    /\ roots = <<>>
    /\ vertexWeights = NoWeights
    /\ raised = ""

SkelNext == PassBegin \/ ForStep \/ PassEnd \/ AddBoneStep \/ AddBonesEnd \/ LoadWeights

(***************************************************************************)
(* VertexBoneWeights.__init__ on raw input                                 *)
(***************************************************************************)
\* Bound: the vertex indices a weights file may name are 0..WVertexCount-1
WVertexCount == 2
\* Bound: the number of [vertex, weight] items in the weights file
MaxEntries == 3

\* raw weights in an arbitrary unit: none, a small and a large one
RawWeightValues == {0, 1, 10000}

RawItems == (0..(WVertexCount - 1)) \X RawWeightValues
GroupsOfLen(k) == [1..k -> RawItems]
GroupsUpTo(n) == UNION {GroupsOfLen(k) : k \in 0..n}

\* the weights files with two bones and at most MaxEntries items
RawInputs ==
    {[keys |-> <<"arm", "root">>, val |-> <<g[1], g[2]>>] :
        g \in UNION {GroupsOfLen(k) \X GroupsUpTo(MaxEntries - k) : k \in 0..MaxEntries}}

\* _calculate_num_weights (lines 37-42): the number of bones listing each vertex
WCounts(v) ==
    [x \in 0..(v.vertexCount - 1) |->
        Cardinality({i \in DOMAIN v.data.keys : x \in Range(v.data.val[i].vs)})]

\* __init__ (lines 15-23)
NewVertexBoneWeights(data, vertexCount, rootBone) ==
    LET v == BuildVertexWeightsData(data, vertexCount, rootBone)
        wc == WCounts(v)
    IN [loaded |-> TRUE, vertexCount |-> v.vertexCount, rootBone |-> rootBone,
        data |-> v.data, wCounts |-> wc,
        nWeights |-> IF v.vertexCount > 0 THEN MaxOf(Range(wc)) ELSE 0]

WInit ==
    /\ w_input \in RawInputs
    /\ w_count \in {NoCount, WVertexCount}
    /\ vbw = NoWeights

WIdle ==
    /\ w_input = EmptyDict
    /\ w_count = NoCount
    /\ vbw = NoWeights

Construct ==
    /\ UNCHANGED notW
    /\ ~vbw.loaded
    /\ vbw' = NewVertexBoneWeights(w_input, w_count, "root")
    /\ UNCHANGED <<w_input, w_count>>

(***************************************************************************)
(* Skeleton._retarget_weights on loaded weights                            *)
(***************************************************************************)
\* Bound: the number of mesh vertices of the retargeting scenarios
RVertexCount == 2

\* the bones of the weights file
SourceNames == <<"pelvis", "upperarm01.L", "deltoid.L", "scapula.L", "upperarm_l">>

\* how the weight 1 of one vertex is shared: one bone, or two bones by halves
Shares == {<<i, j>> \in (1..Len(SourceNames)) \X (1..Len(SourceNames)) : i <= j}

ShareOf(sh, i) == IF sh[1] = i /\ sh[2] = i THEN FOne
                  ELSE IF sh[1] = i \/ sh[2] = i THEN <<1, 2>> ELSE FZero

\* the weights data in internal format for a sharing of every vertex: one entry
\* per bone that has weight, vertices ascending
RECURSIVE SourceData(_, _, _)
SourceData(sharing, i, d) ==
    IF i > Len(SourceNames) THEN d
    ELSE LET mine == {v \in DOMAIN sharing : ShareOf(sharing[v], i) # FZero}
             vs == PositionsIn([k \in 1..RVertexCount |-> k - 1], mine)
         IN SourceData(sharing, i + 1,
                IF mine = {} THEN d
                ELSE DictSet(d, SourceNames[i],
                             [vs |-> [k \in DOMAIN vs |-> vs[k] - 1],
                              ws |-> [k \in DOMAIN vs |-> ShareOf(sharing[vs[k] - 1], i)]]))

RigBone(name, ref, w_ref) ==
    [name |-> name, parent |-> IF name = "pelvis" THEN NoParent ELSE "pelvis",
     level |-> IF name = "pelvis" THEN 0 ELSE 1,
     reference_bones |-> ref, weight_reference_bones |-> w_ref]

\* the rigs: pelvis without references, clavicle_l and upperarm_l with or without
RigChoices ==
    {<<RigBone("pelvis", {}, {}), RigBone("clavicle_l", c, {}), RigBone("upperarm_l", u, w)>> :
        c \in {{}, {"scapula.L"}},
        u \in {{}, {"upperarm01.L"}, {"upperarm01.L", "deltoid.L"}},
        w \in {{}, {"deltoid.L"}}}

RInit ==
    /\ r_bones \in RigChoices
    /\ \E sharing \in [0..(RVertexCount - 1) -> Shares] :
          /\ r_source = SourceData(sharing, 1, EmptyDict)
          /\ r_vw = [loaded |-> TRUE, vertexCount |-> RVertexCount, rootBone |-> "pelvis",
                     data |-> r_source]
    /\ r_done = FALSE

RIdle ==
    /\ r_bones = <<>>
    /\ r_vw = NoWeights
    /\ r_source = EmptyDict
    /\ r_done = FALSE

\* lines 346-347: the weights loaded are retargeted
Retarget ==
    /\ UNCHANGED notR
    /\ ~r_done
    /\ r_vw.loaded
    /\ r_vw' = RetargetWeights(r_bones, r_vw)
    /\ r_done' = TRUE
    /\ UNCHANGED <<r_bones, r_source>>

(***************************************************************************)
(* 4x4 matrices over the integers (rows of a matrix are tuples)            *)
(***************************************************************************)
Identity4 == << <<1, 0, 0, 0>>, <<0, 1, 0, 0>>, <<0, 0, 1, 0>>, <<0, 0, 0, 1>> >>

\* entry (i, j) of np.dot(A, B)
Dot(A, B, i, j) ==
    A[i][1] * B[1][j] + A[i][2] * B[2][j] + A[i][3] * B[3][j] + A[i][4] * B[4][j]

DotRow(A, B, i) == <<Dot(A, B, i, 1), Dot(A, B, i, 2), Dot(A, B, i, 3), Dot(A, B, i, 4)>>

\* np.dot of two 4x4 matrices
MatMul(A, B) == <<DotRow(A, B, 1), DotRow(A, B, 2), DotRow(A, B, 3), DotRow(A, B, 4)>>

\* la.inv of a rigid matrix (orthonormal rotation R, translation t):
\* rotation R^T, translation -R^T t
InvRow(A, i) ==
    <<A[1][i], A[2][i], A[3][i],
      0 - (A[1][i] * A[1][4] + A[2][i] * A[2][4] + A[3][i] * A[3][4])>>

MatInv(A) == <<InvRow(A, 1), InvRow(A, 2), InvRow(A, 3), <<0, 0, 0, 1>> >>

\* coordinate i of mat applied to the homogeneous point (v, 1)
ApplyRow(mat, v, i) == mat[i][1] * v[1] + mat[i][2] * v[2] + mat[i][3] * v[3] + mat[i][4]

\* the first three coordinates of mat applied to the homogeneous point (v, 1)
MatApply(mat, v) == <<ApplyRow(mat, v, 1), ApplyRow(mat, v, 2), ApplyRow(mat, v, 3)>>

VecAdd(a, b) == <<a[1] + b[1], a[2] + b[2], a[3] + b[3]>>
VecScale(k, a) == <<k * a[1], k * a[2], k * a[3]>>

(***************************************************************************)
(* Bone pose matrices (Bone.build, Bone.update)                            *)
(***************************************************************************)
\* the skeleton skinned: a root and a child, in boneslist order
SkinBoneNames == <<"pelvis", "upperarm_l">>
SkinParent(name) == IF name = "pelvis" THEN NoParent ELSE "pelvis"

\* getMatrix of the pelvis (head (0,0,0), tail (0,1,0)) and of the upper arm
\* (head (0,2,0), tail (1,2,0)) with normal (0,0,1): the columns are x, the
\* bone direction and z, then the head (these axes are already unit vectors)
RestGlobal(name) ==
    IF name = "pelvis"
    THEN << <<0, 0, -1, 0>>, <<0, 1, 0, 0>>, <<1, 0, 0, 0>>, <<0, 0, 0, 1>> >>
    ELSE << <<0, 1, 0, 0>>, <<0, 0, 1, 2>>, <<1, 0, 0, 0>>, <<0, 0, 0, 1>> >>

\* matRestGlobal as build() computes it: from the joint positions when the
\* skeleton knows its joints' vertices; otherwise every joint is placed at the
\* origin, the bone has zero length and getMatrix returns the identity
JointRest(name, joints_known) == IF joints_known THEN RestGlobal(name) ELSE Identity4

\* Bone.build, lines 228-232
RestRelative(skelBones, name, rest) ==
    IF SkinParent(name) # NoParent
    THEN MatMul(MatInv(skelBones[SkinParent(name)].matRestGlobal), rest)
    ELSE rest

WithRest(skelBones, name, rest) ==
    [skelBones EXCEPT ![name].matRestGlobal = rest,
                      ![name].matRestRelative = RestRelative(skelBones, name, rest)]

\* matPoseGlobal of Bone.update: parent's global . rest relative . local pose
PoseGlobal(skelBones, name) ==
    IF SkinParent(name) # NoParent
    THEN MatMul(skelBones[SkinParent(name)].matPoseGlobal,
                MatMul(skelBones[name].matRestRelative, skelBones[name].matPose))
    ELSE MatMul(skelBones[name].matRestRelative, skelBones[name].matPose)

\* (mutant) the skinning matrix is the global pose, not composed with the
\* inverse rest matrix
SkinMatrixNoInverse(matRestGlobal, matPoseGlobal) == matPoseGlobal

\* matPoseVerts of Bone.update: the global pose after the inverse rest matrix
SkinMatrix(matRestGlobal, matPoseGlobal) == MatMul(matPoseGlobal, MatInv(matRestGlobal))

WithGlobal(bone, matPoseGlobal) ==
    [bone EXCEPT !.matPoseGlobal = matPoseGlobal,
                 !.matPoseVerts = SkinMatrix(bone.matRestGlobal, matPoseGlobal)]

\* Bone.update (lines 236-251): the bone with its global and skinning matrices
UpdatedBone(skelBones, name) == WithGlobal(skelBones[name], PoseGlobal(skelBones, name))

SweepBone(posed, name) == [posed EXCEPT ![name] = UpdatedBone(posed, name)]

\* Skeleton.updateJointPositions: every bone, in boneslist order, is rebuilt
\* and build() ends with update()
RECURSIVE UpdateJointPositions(_, _, _)
UpdateJointPositions(skelBones, i, joints_known) ==
    IF i > Len(SkinBoneNames) THEN skelBones
    ELSE UpdateJointPositions(
            SweepBone(WithRest(skelBones, SkinBoneNames[i],
                               JointRest(SkinBoneNames[i], joints_known)),
                      SkinBoneNames[i]),
            i + 1, joints_known)

\* one bone of a sweep: the local pose a request gives it, if any
WithRequest(skelBones, name, request) ==
    IF name \in DOMAIN request
    THEN [skelBones EXCEPT ![name].matPose = request[name]]
    ELSE skelBones

\* for bone in boneslist: set the local pose a request gives, then bone.update()
RECURSIVE PoseSweep(_, _, _)
PoseSweep(skelBones, i, request) ==
    IF i > Len(SkinBoneNames) THEN skelBones
    ELSE PoseSweep(SweepBone(WithRequest(skelBones, SkinBoneNames[i], request),
                             SkinBoneNames[i]),
                   i + 1, request)

\* the matrices Bone.__init__ leaves unset
NoMatrix == <<>>

\* the bones as addBone leaves them, and the loaded skeleton once built
FreshBones == [n \in Range(SkinBoneNames) |->
                 [matRestGlobal |-> NoMatrix, matRestRelative |-> NoMatrix,
                  matPose |-> Identity4, matPoseGlobal |-> NoMatrix,
                  matPoseVerts |-> NoMatrix]]
BuiltBones == UpdateJointPositions(FreshBones, 1, TRUE)

\* the local rotations a request can give a bone: none, or a quarter turn
\* about Z (np.dot(rz, np.dot(ry, rx)) for Euler angles (0,0,0) and (0,0,90))
PoseRotations ==
    { Identity4,
      << <<0, -1, 0, 0>>, <<1, 0, 0, 0>>, <<0, 0, 1, 0>>, <<0, 0, 0, 1>> >> }

\* manual_pose / bones_data: a local rotation for some of the bones
PoseRequests ==
    UNION {[S -> PoseRotations] : S \in SUBSET Range(SkinBoneNames)}

(***************************************************************************)
(* Linear blend skinning: the preview endpoint and Pose Studio             *)
(***************************************************************************)
\* Bound: the number of mesh vertices skinned
SVertexCount == 2

\* weights are integers in units of 1/WUnit; positions skinned are in the
\* same unit (an output of WUnit * p stands for the point p)
WUnit == 1000
\* the fallback threshold 0.01 of the endpoint, in units of 1/WUnit
UnskinnedBelow == 10

\* the rest position of vertex v (new_verts / verts)
AllRestVerts == << <<1, 0, 0>>, <<0, 3, 1>>, <<2, 2, 0>>, <<0, 0, 0>> >>
RestVertex(v) == AllRestVerts[(v % Len(AllRestVerts)) + 1]

\* the bones of the weights data; deltoid.L is not a bone of the skeleton
SkinWeightKeys == <<"pelvis", "upperarm_l", "deltoid.L">>

\* how one vertex is weighted: by no bone, fully, by halves, partially (0.5),
\* barely (0.005), or by a bone the skeleton lacks
VertexWeightings ==
    { <<0, 0, 0>>, <<1000, 0, 0>>, <<500, 500, 0>>, <<0, 500, 0>>, <<0, 5, 0>>,
      <<0, 0, 1000>>, <<500, 0, 500>> }

RECURSIVE SkinData(_, _, _)
SkinData(weighting, i, d) ==
    IF i > Len(SkinWeightKeys) THEN d
    ELSE LET mine == {v \in DOMAIN weighting : weighting[v][i] # 0}
             vs == PositionsIn([k \in 1..SVertexCount |-> k - 1], mine)
         IN SkinData(weighting, i + 1,
                IF mine = {} THEN d
                ELSE DictSet(d, SkinWeightKeys[i],
                             [vs |-> [k \in DOMAIN vs |-> vs[k] - 1],
                              ws |-> [k \in DOMAIN vs |-> weighting[vs[k] - 1][i]]]))

ZeroVec == <<0, 0, 0>>

\* deformed_verts[indices] += vs_trans[:, :3] * w_col for one bone entry
RECURSIVE AddBoneEntry(_, _, _, _)
AddBoneEntry(acc, entry, mat, k) ==
    IF k > Len(entry.vs) THEN acc
    ELSE AddBoneEntry(
            [acc EXCEPT ![entry.vs[k]] =
                VecAdd(acc[entry.vs[k]],
                       VecScale(entry.ws[k], MatApply(mat, RestVertex(entry.vs[k]))))],
            entry, mat, k + 1)

\* np.add.at(total_weight, indices, w_col) for one bone entry
RECURSIVE AddBoneTotal(_, _, _)
AddBoneTotal(tot, entry, k) ==
    IF k > Len(entry.vs) THEN tot
    ELSE AddBoneTotal([tot EXCEPT ![entry.vs[k]] = tot[entry.vs[k]] + entry.ws[k]],
                      entry, k + 1)

\* the loop over weights_data.items(), skipping the bones the skeleton lacks
RECURSIVE Accumulated(_, _, _, _)
Accumulated(data, skelBones, i, acc) ==
    IF i > Len(data.keys) THEN acc
    ELSE IF data.keys[i] \notin DOMAIN skelBones \/ Len(data.val[i].vs) = 0
         THEN Accumulated(data, skelBones, i + 1, acc)
         ELSE Accumulated(data, skelBones, i + 1,
                  [verts |-> AddBoneEntry(acc.verts, data.val[i],
                                          skelBones[data.keys[i]].matPoseVerts, 1),
                   total |-> AddBoneTotal(acc.total, data.val[i], 1)])

SkinAccumulate(data, skelBones) ==
    Accumulated(data, skelBones, 1,
                [verts |-> [v \in 0..(SVertexCount - 1) |-> ZeroVec],
                 total |-> [v \in 0..(SVertexCount - 1) |-> 0]])

RestScaled == [v \in 0..(SVertexCount - 1) |-> VecScale(WUnit, RestVertex(v))]

\* the vertices whose total weight is below 0.01 take their rest position
WithRestFallback(acc) ==
    [v \in 0..(SVertexCount - 1) |->
        IF acc.total[v] < UnskinnedBelow THEN RestScaled[v] ELSE acc.verts[v]]

\* src/__init__.py lines 465-496: accumulate, then fall back to rest
EndpointSkin(data, skelBones) == WithRestFallback(SkinAccumulate(data, skelBones))

\* pose_studio.py lines 222-275: accumulate into zeros; no total, no fallback
PoseStudioSkin(data, skelBones) == SkinAccumulate(data, skelBones).verts

LocalPoses(skelBones) == [n \in DOMAIN skelBones |-> skelBones[n].matPose]

\* bone_matrices = {b.name: b.matPoseVerts for b in skel.getBones()}
BoneMatrices(skelBones) == [n \in DOMAIN skelBones |-> skelBones[n].matPoseVerts]

SInit ==
    /\ s_bones = BuiltBones
    /\ \E weighting \in [0..(SVertexCount - 1) -> VertexWeightings] :
          s_weights = SkinData(weighting, 1, EmptyDict)
    /\ s_result = [path |-> "none"]

SIdle ==
    /\ s_bones = <<>>
    /\ s_weights = EmptyDict
    /\ s_result = [path |-> "none"]

\* the manual_pose branch: every bone posed and updated in turn, then
\* skel.updateJointPositions on the skeleton loaded with its joints
EndpointPosed(skelBones, manual_pose) ==
    UpdateJointPositions(PoseSweep(skelBones, 1, manual_pose), 1, TRUE)

\* vnccs_character_studio_update_preview with a manual_pose (lines 336-363,
\* 464-498): the cached skeleton is posed in place, then skinned
EndpointManualPose ==
    /\ UNCHANGED notS
    /\ s_bones # <<>>
    /\ \E manual_pose \in PoseRequests :
          IF manual_pose # <<>>
          THEN /\ s_bones' = EndpointPosed(s_bones, manual_pose)
               /\ s_result' = [path |-> "endpoint", skinned |-> TRUE,
                               request |-> manual_pose,
                               pose |-> LocalPoses(s_bones'),
                               bone_matrices |-> BoneMatrices(s_bones'),
                               verts |-> EndpointSkin(s_weights, s_bones')]
          ELSE /\ s_result' = [path |-> "endpoint", skinned |-> FALSE,
                               request |-> manual_pose,
                               pose |-> LocalPoses(s_bones),
                               bone_matrices |-> BoneMatrices(s_bones),
                               verts |-> RestScaled]
               /\ UNCHANGED s_bones
    /\ UNCHANGED s_weights

\* bone.matPose = rot_mat for the bones of bones_data
SetPoses(skelBones, bones_data) ==
    [n \in DOMAIN skelBones |->
        IF n \in DOMAIN bones_data
        THEN [skelBones[n] EXCEPT !.matPose = bones_data[n]]
        ELSE skelBones[n]]

\* skel = orig_skel.copy(), which does not carry the joints' vertices over;
\* updateJointPositions; the bones_data rotations set as local poses; every
\* bone updated in order
PoseStudioPosed(bones_data) ==
    PoseSweep(SetPoses(UpdateJointPositions(FreshBones, 1, FALSE), bones_data), 1, <<>>)

\* VNCCS_PoseStudio._apply_pose (lines 170-304) without model rotation: a copy
\* of the cached skeleton is built, posed and skinned
PoseStudioApplyPose ==
    /\ UNCHANGED notS
    /\ s_bones # <<>>
    /\ \E bones_data \in PoseRequests :
          \E posed \in {PoseStudioPosed(bones_data)} :
              s_result' = [path |-> "pose_studio", skinned |-> TRUE,
                           pose |-> LocalPoses(posed),
                           bone_matrices |-> BoneMatrices(posed),
                           verts |-> PoseStudioSkin(s_weights, posed)]
    /\ UNCHANGED <<s_bones, s_weights>>

(***************************************************************************)
(* HumanSolver.solve_mesh over float32 vertex arrays                       *)
(***************************************************************************)
\* Bound: the number of vertices of the base mesh
MVertexCount == 2

\* every integer of magnitude up to 2^24 is a float32; beyond it the
\* float32 values thin out (np.float32 vertex and delta arrays)
Float32Exact == 16777216

Abs(x) == IF x < 0 THEN 0 - x ELSE x

\* the gap between neighbouring float32 values around the magnitude a
RECURSIVE Ulp(_)
Ulp(a) == IF a < Float32Exact THEN 1 ELSE 2 * Ulp(a \div 2)

\* a magnitude rounded to the nearest multiple of u, ties to the even multiple
RoundTo(a, u) ==
    IF 2 * (a % u) < u THEN a - (a % u)
    ELSE IF 2 * (a % u) > u THEN a - (a % u) + u
    ELSE IF (a \div u) % 2 = 0 THEN a - (a % u) ELSE a - (a % u) + u

\* the float32 nearest to the integer x
F32(x) == IF x < 0 THEN 0 - RoundTo(0 - x, Ulp(0 - x)) ELSE RoundTo(x, Ulp(x))

\* the 0.001 below which a target's weight makes it irrelevant, inverted
RelevantWeightInv == 1000

NoData == [loaded |-> FALSE]
NoCall == [called |-> FALSE]

TagName(name) == [is_true |-> FALSE, tag |-> name]
TagTrue == [is_true |-> TRUE, tag |-> ""]

\* the entries scan_targets and load_target_data can have left in the cache:
\* tags by category, data None or (indices, deltas)
TargetCatalogue ==
    { [path |-> "macros/male.target",
       tags |-> [keys |-> <<"gender">>, val |-> <<TagName("male")>>],
       data |-> [loaded |-> TRUE, indices |-> <<0, 1>>,
                 deltas |-> << <<Float32Exact, 0, 0>>, <<0, 1, 0>> >>]],
      [path |-> "macros/female-young.target",
       tags |-> [keys |-> <<"gender", "age">>, val |-> <<TagName("female"), TagName("young")>>],
       data |-> [loaded |-> TRUE, indices |-> <<0>>,
                 deltas |-> << <<0 - Float32Exact, 0, 0>> >>]],
      [path |-> "macros/universal.target",
       tags |-> [keys |-> <<"universal">>, val |-> <<TagTrue>>],
       data |-> [loaded |-> TRUE, indices |-> <<0, 0>>,
                 deltas |-> << <<7, 0, 0>>, <<1, 0, 2>> >>]],
      [path |-> "macros/male-unread.target",
       tags |-> [keys |-> <<"gender">>, val |-> <<TagName("male")>>],
       data |-> NoData] }

\* factor tables: male 0 or 1, female 1, young absent, 1 or 2; no entry for
\* universal
FactorTables ==
    {[n \in {"male", "female"} |-> IF n = "male" THEN m ELSE 1] : m \in {0, 1}}
    \cup {[n \in {"male", "female", "young"} |->
              IF n = "male" THEN m ELSE IF n = "young" THEN y ELSE 1] :
             m \in {0, 1}, y \in {1, 2}}

\* base meshes: every vertex at the origin, or at distinct positions
BaseMeshes ==
    { [v \in 0..(MVertexCount - 1) |-> <<0, 0, 0>>],
      [v \in 0..(MVertexCount - 1) |-> <<v + 1, 2, 0 - v>>] }

\* factors.get(name, default)
FactorGet(factors, name, default) ==
    IF name \in DOMAIN factors THEN factors[name] ELSE default

\* the value one tag contributes (lines 274-277)
TagFactor(tag_val, factors) ==
    IF tag_val.is_true THEN FactorGet(factors, "universal", 1)
    ELSE FactorGet(factors, tag_val.tag, 0)

\* the loop over target['tags'].items(): the running product, and whether
\* it stayed at or above 0.001 (lines 273-282)
RECURSIVE TargetWeight(_, _, _, _)
TargetWeight(tags, i, weight, factors) ==
    IF i > Len(tags.keys) THEN [relevant |-> TRUE, weight |-> weight]
    ELSE IF weight * TagFactor(tags.val[i], factors) * RelevantWeightInv < 1
         THEN [relevant |-> FALSE, weight |-> weight * TagFactor(tags.val[i], factors)]
         ELSE TargetWeight(tags, i + 1, weight * TagFactor(tags.val[i], factors), factors)

\* one float32 coordinate plus a float32 delta scaled by the weight
AddScaled(x, d, weight) == F32(x + F32(d * weight))

\* (mutant) the scaled delta is stored, not added
PlusDeltaAssigning(p, delta, weight) ==
    <<F32(delta[1] * weight), F32(delta[2] * weight), F32(delta[3] * weight)>>

\* one row of new_verts[indices] + deltas * weight
PlusDelta(p, delta, weight) ==
    <<AddScaled(p[1], delta[1], weight), AddScaled(p[2], delta[2], weight),
      AddScaled(p[3], delta[3], weight)>>

\* new_verts[indices] += deltas * weight: every row is computed from the
\* array as it was, then stored in index order
RECURSIVE AddDeltas(_, _, _, _, _)
AddDeltas(old, new_verts, data, weight, k) ==
    IF k > Len(data.indices) THEN new_verts
    ELSE AddDeltas(old,
                   [new_verts EXCEPT ![data.indices[k]] =
                       PlusDelta(old[data.indices[k]], data.deltas[k], weight)],
                   data, weight, k + 1)

\* the body of the loop for one target (lines 264-298)
ApplyTarget(new_verts, target, tw) ==
    IF tw.relevant /\ target.data.loaded
    THEN AddDeltas(new_verts, new_verts, target.data, tw.weight, 1)
    ELSE new_verts

\* for target in targets
RECURSIVE ApplyTargets(_, _, _, _)
ApplyTargets(new_verts, targets, i, factors) ==
    IF i > Len(targets) THEN new_verts
    ELSE ApplyTargets(
            ApplyTarget(new_verts, targets[i],
                        TargetWeight(targets[i].tags, 1, 1, factors)),
            targets, i + 1, factors)

\* the lowest address no live array has
FreshAddress(heap) == CHOOSE a \in 0..Cardinality(DOMAIN heap) :
                          a \notin DOMAIN heap /\ \A b \in 0..(a - 1) : b \in DOMAIN heap

Allocated(heap, a, array) == [heap |-> (a :> array) @@ heap, addr |-> a]

\* (mutant) the base array itself, not a copy
ArrayCopyAliased(heap, addr) == [heap |-> heap, addr |-> addr]

\* ndarray.copy(): a new array with the same contents
ArrayCopy(heap, addr) == Allocated(heap, FreshAddress(heap), heap[addr])

\* the arrays alive after the loop ran on the array at c.addr
Solved(c, targets, factors) ==
    [heap |-> [c.heap EXCEPT ![c.addr] = ApplyTargets(c.heap[c.addr], targets, 1, factors)],
     addr |-> c.addr]

\* HumanSolver.solve_mesh (lines 256-300): the heap after the call and the
\* address of the array returned
SolveMesh(heap, base_vertices, targets, factors) ==
    Solved(ArrayCopy(heap, base_vertices), targets, factors)

\* base_mesh.vertices
BaseAddress == 0

\* the arrays still referenced: the base mesh's and those the caller holds
Collected(heap, held) == [a \in {BaseAddress} \cup held |-> heap[a]]

MInit ==
    /\ \E base \in BaseMeshes, ts \in SUBSET TargetCatalogue, fs \in FactorTables :
          /\ m_given = [base |-> base, targets |-> ts, factors |-> fs]
          /\ m_heap = (BaseAddress :> base)
          /\ m_targets = ts
          /\ m_factors = fs
    /\ m_first = NoCall
    /\ m_last = NoCall

MIdle ==
    /\ m_given = <<>>
    /\ m_heap = <<>>
    /\ m_targets = {}
    /\ m_factors = <<>>
    /\ m_first = NoCall
    /\ m_last = NoCall

\* a caller runs solve_mesh on the cached base mesh with the targets in some
\* order and keeps the array returned
SolveMeshCall ==
    /\ UNCHANGED notM
    /\ m_heap # <<>>
    /\ \E targets \in Perms(m_targets) :
          \E r \in {SolveMesh(m_heap, BaseAddress, targets, m_factors)} :
              IF ~m_first.called
              THEN /\ m_first' = [called |-> TRUE, targets |-> targets, addr |-> r.addr]
                   /\ m_heap' = Collected(r.heap, {r.addr})
                   /\ UNCHANGED m_last
              ELSE /\ m_last' = [called |-> TRUE, targets |-> targets, addr |-> r.addr]
                   /\ m_heap' = Collected(r.heap, {m_first.addr, r.addr})
                   /\ UNCHANGED m_first
    /\ UNCHANGED <<m_given, m_targets, m_factors>>

(***************************************************************************)
(* Exact rationals <<n, d>> with d > 0, kept in lowest terms               *)
(***************************************************************************)
RECURSIVE GCD(_, _)
GCD(a, b) == IF b = 0 THEN a ELSE GCD(b, a % b)

\* the rational n / d (d # 0) in lowest terms with a positive denominator
Q(n, d) ==
    IF d < 0 THEN <<(0 - n) \div GCD(Abs(n), Abs(d)), (0 - d) \div GCD(Abs(n), Abs(d))>>
    ELSE <<n \div GCD(Abs(n), Abs(d)), d \div GCD(Abs(n), Abs(d))>>

LCM(a, b) == (a \div GCD(a, b)) * b

QAdd(a, b) ==
    Q(a[1] * (LCM(a[2], b[2]) \div a[2]) + b[1] * (LCM(a[2], b[2]) \div b[2]),
      LCM(a[2], b[2]))
QSub(a, b) == QAdd(a, <<0 - b[1], b[2]>>)
QMul(a, b) ==
    Q((a[1] \div GCD(Abs(a[1]), b[2])) * (b[1] \div GCD(Abs(b[1]), a[2])),
      (a[2] \div GCD(Abs(b[1]), a[2])) * (b[2] \div GCD(Abs(a[1]), b[2])))
QLt(a, b) == QSub(a, b)[1] < 0
QLe(a, b) == QSub(a, b)[1] <= 0
QMax(a, b) == IF QLt(a, b) THEN b ELSE a
QMin(a, b) == IF QLt(b, a) THEN b ELSE a
QZero == <<0, 1>>
QOne == <<1, 1>>

(***************************************************************************)
(* HumanSolver.calculate_factors                                           *)
(***************************************************************************)
\* Bound: sliders take the values k / SliderSteps, k in 0..SliderSteps
SliderSteps == 2

SliderValues == {Q(k, SliderSteps) : k \in 0..SliderSteps}

\* ages: the slider grid, the midpoint, a quarter, and the ages around which
\* the baby and young ramps meet: 0.1875, 1/5.333 and a value between them
AgeValues ==
    SliderValues \cup {<<1, 2>>, <<1, 4>>, <<3, 16>>, <<31999, 170656>>, <<1000, 5333>>}

NoFactors == <<>>

\* max(0.0, x * 2 - 1), max(0.0, 1 - x * 2) and 1 - (max + min), lines 201-203
MaxFactor(x) == QMax(QZero, QSub(QMul(x, <<2, 1>>), QOne))
MinFactor(x) == QMax(QZero, QSub(QOne, QMul(x, <<2, 1>>)))

\* (mutant) the average is one minus the maximum alone
AverageFactorOfMax(x) == QSub(QOne, MaxFactor(x))

AverageFactor(x) == QSub(QOne, QAdd(MaxFactor(x), MinFactor(x)))

\* the young factor below the midpoint, line 192
YoungBelow(age) == QMax(QZero, QMul(QSub(age, <<3, 16>>), <<16, 5>>))

\* (mutant) the child factor does not give way to the young factor
ChildBelowKeepingYoung(age) == QMin(QOne, QMul(<<5333, 1000>>, age))

\* the child factor below the midpoint, line 193
ChildBelow(age) ==
    QMax(QZero, QSub(QMin(QOne, QMul(<<5333, 1000>>, age)), YoungBelow(age)))

\* the four age factors, lines 189-198
AgeFactors(age) ==
    IF QLt(age, <<1, 2>>)
    THEN [old |-> QZero,
          baby |-> QMax(QZero, QSub(QOne, QMul(age, <<5333, 1000>>))),
          young |-> YoungBelow(age),
          child |-> ChildBelow(age)]
    ELSE [child |-> QZero,
          baby |-> QZero,
          old |-> QMax(QZero, QSub(QMul(age, <<2, 1>>), QOne)),
          young |-> QSub(QOne, QMax(QZero, QSub(QMul(age, <<2, 1>>), QOne)))]

\* HumanSolver.calculate_factors (lines 176-254): the factors dictionary
CalculatedFactors(in) ==
    [male |-> in.gender,
     female |-> QSub(QOne, in.gender),
     old |-> AgeFactors(in.age).old,
     baby |-> AgeFactors(in.age).baby,
     young |-> AgeFactors(in.age).young,
     child |-> AgeFactors(in.age).child,
     maxmuscle |-> MaxFactor(in.muscle),
     minmuscle |-> MinFactor(in.muscle),
     averagemuscle |-> AverageFactor(in.muscle),
     maxweight |-> MaxFactor(in.weight),
     minweight |-> MinFactor(in.weight),
     averageweight |-> AverageFactor(in.weight),
     maxheight |-> MaxFactor(in.height),
     minheight |-> MinFactor(in.height),
     averageheight |-> AverageFactor(in.height),
     african |-> <<333, 1000>>,
     asian |-> <<333, 1000>>,
     caucasian |-> <<167, 500>>,
     maxcup |-> MaxFactor(in.breast_size),
     mincup |-> MinFactor(in.breast_size),
     averagecup |-> AverageFactor(in.breast_size),
     maxfirmness |-> QZero,
     minfirmness |-> QZero,
     averagefirmness |-> QOne,
     penis_length_incr |-> MaxFactor(in.genital_size),
     penis_length_decr |-> MinFactor(in.genital_size),
     penis_testicles_incr |-> MaxFactor(in.genital_size),
     penis_testicles_decr |-> MinFactor(in.genital_size),
     penis_circ_incr |-> QZero,
     penis_circ_decr |-> QZero,
     universal |-> QOne]

FInit ==
    /\ f_input \in [age : AgeValues, gender : SliderValues, weight : SliderValues,
                    muscle : SliderValues, height : SliderValues,
                    breast_size : SliderValues, genital_size : SliderValues]
    /\ f_factors = NoFactors

FIdle ==
    /\ f_input = <<>>
    /\ f_factors = NoFactors

\* a caller computes the factor table of its sliders
CalculateFactors ==
    /\ UNCHANGED notF
    /\ f_input # <<>>
    /\ f_factors = NoFactors
    /\ f_factors' = CalculatedFactors(f_input)
    /\ UNCHANGED f_input

(***************************************************************************)
(* TargetParser: _parse_filename, scan_targets, load_target_data           *)
(***************************************************************************)
\* self.categories, in the order of the dictionary (lines 10-24)
Categories ==
    << [cat |-> "gender", values |-> {"male", "female"}],
       [cat |-> "age", values |-> {"baby", "child", "young", "old"}],
       [cat |-> "muscle", values |-> {"minmuscle", "averagemuscle", "maxmuscle"}],
       [cat |-> "weight", values |-> {"minweight", "averageweight", "maxweight"}],
       [cat |-> "height", values |-> {"minheight", "averageheight", "maxheight"}],
       [cat |-> "race", values |-> {"african", "asian", "caucasian"}],
       [cat |-> "cup", values |-> {"mincup", "averagecup", "maxcup"}],
       [cat |-> "firmness", values |-> {"minfirmness", "averagefirmness", "maxfirmness"}],
       [cat |-> "universal", values |-> {"universal"}],
       [cat |-> "penis_len", values |-> {"penis-length-decr", "penis-length-incr"}],
       [cat |-> "penis_circ", values |-> {"penis-circ-decr", "penis-circ-incr"}],
       [cat |-> "penis_test", values |-> {"penis-testicles-decr", "penis-testicles-incr"}] >>

\* str.lower() on the words the file names below are made of
Lower(word) ==
    IF word = "Male" THEN "male" ELSE IF word = "Universal" THEN "universal" ELSE word

\* for cat, values in self.categories.items(): if part in values: tags[cat] = part
RECURSIVE TagPart(_, _, _)
TagPart(tags, part, c) ==
    IF c > Len(Categories) THEN tags
    ELSE TagPart(IF part \in Categories[c].values
                 THEN DictSet(tags, Categories[c].cat, TagName(part))
                 ELSE tags,
                 part, c + 1)

\* for part in parts (lines 108-113)
RECURSIVE TagParts(_, _, _)
TagParts(tags, parts, i) ==
    IF i > Len(parts) THEN tags
    ELSE TagParts(TagPart(tags, parts[i], 1), parts, i + 1)

\* one composite genital tag: decr first, then incr over it (lines 117-125)
DecrIncr(tags, words, word, cat, decr, incr) ==
    IF word \notin words THEN tags
    ELSE IF "incr" \in words THEN DictSet(tags, cat, TagName(incr))
    ELSE IF "decr" \in words THEN DictSet(tags, cat, TagName(decr))
    ELSE tags

\* the composite genital tags (lines 116-125)
PenisTags(tags, words) ==
    IF "penis" \notin words THEN tags
    ELSE DecrIncr(
            DecrIncr(
                DecrIncr(tags, words, "length", "penis_len",
                         "penis-length-decr", "penis-length-incr"),
                words, "circ", "penis_circ", "penis-circ-decr", "penis-circ-incr"),
            words, "testicles", "penis_test",
            "penis-testicles-decr", "penis-testicles-incr")

\* tags['universal'] = True (lines 128-129)
UniversalTag(tags, words) ==
    IF "universal" \in words THEN DictSet(tags, "universal", TagTrue) ELSE tags

\* the parts of a file name: lower case, split at '-' and '_' (lines 90, 95)
LowerParts(words) == [i \in DOMAIN words |-> Lower(words[i])]

\* TargetParser._parse_filename (lines 85-131) on a file name given by the
\* words between its '-' and '_' separators
ParseFilename(words) ==
    UniversalTag(
        PenisTags(TagParts(EmptyDict, LowerParts(words), 1), Range(LowerParts(words))),
        Range(LowerParts(words)))

\* the fields of a line of a target file: what int() and float() make of them
IntField(n) == [is_int |-> TRUE, is_float |-> TRUE, value |-> n]
FloatField == [is_int |-> FALSE, is_float |-> TRUE, value |-> 0]
JunkField == [is_int |-> FALSE, is_float |-> FALSE, value |-> 0]

TextLine(fields) == [blank |-> FALSE, comment |-> FALSE, fields |-> fields]
BlankLine == [blank |-> TRUE, comment |-> FALSE, fields |-> <<>>]
CommentLine == [blank |-> FALSE, comment |-> TRUE,
                fields |-> <<JunkField, JunkField, JunkField, JunkField>>]

\* the contents a target file can have: only valid lines (after a comment);
\* valid lines among malformed ones; only malformed lines; nothing
FileContents ==
    { << CommentLine,
         TextLine(<<IntField(0), IntField(1), IntField(0), IntField(0)>>),
         TextLine(<<IntField(1), IntField(0), IntField(2), IntField(0)>>) >>,
      << TextLine(<<IntField(0), IntField(1), IntField(0)>>),
         TextLine(<<IntField(0), IntField(3), IntField(0), IntField(0)>>),
         TextLine(<<IntField(1), JunkField, IntField(0), IntField(0)>>),
         BlankLine,
         TextLine(<<FloatField, IntField(1), IntField(1), IntField(1)>>),
         TextLine(<<IntField(1), IntField(0), IntField(0), IntField(4)>>),
         TextLine(<<IntField(1), IntField(0), IntField(0), IntField(4), IntField(0)>>) >>,
      << TextLine(<<IntField(0), IntField(1), IntField(0)>>),
         TextLine(<<IntField(1), IntField(0), IntField(0), JunkField>>) >>,
      << >> }

\* the file names under the three folders, as the words of the name and the
\* extension
TargetFileNames ==
    { [folder |-> "macrodetails", words |-> <<"universal", "female", "young">>, ext |-> ".target"],
      [folder |-> "macrodetails", words |-> <<"caucasian", "Male", "old">>, ext |-> ".target"],
      [folder |-> "macrodetails", words |-> <<"notes", "readme">>, ext |-> ".target"],
      [folder |-> "macrodetails", words |-> <<"Universal", "male">>, ext |-> ".txt"],
      [folder |-> "breast", words |-> <<"female", "young", "maxcup", "averagefirmness">>, ext |-> ".target"],
      [folder |-> "breast", words |-> <<"female", "breast", "height">>, ext |-> ".target"],
      [folder |-> "genitals", words |-> <<"penis", "length", "incr">>, ext |-> ".target"],
      [folder |-> "genitals", words |-> <<"male", "genitals">>, ext |-> ".target"] }

\* Bound: the number of files present under the target folders
MaxFiles == 2

\* base_folders, in order (line 30)
BaseFolders == <<"macrodetails", "breast", "genitals">>

\* the parsed line is kept: four fields, the first an int, the others floats
\* (lines 148-160)
KeptLine(line) ==
    /\ ~line.blank
    /\ ~line.comment
    /\ Len(line.fields) = 4
    /\ line.fields[1].is_int
    /\ \A i \in 2..4 : line.fields[i].is_float

\* (mutant) the first malformed line ends the reading
ReadLinesUntilMalformed(lines, data) ==
    LET F[k \in 0..Len(lines)] ==
            IF k = 0 THEN data
            ELSE IF \A j \in 1..k : KeptLine(lines[j]) \/ lines[j].blank \/ lines[j].comment
                 THEN IF KeptLine(lines[k])
                      THEN [indices |-> Append(F[k - 1].indices, lines[k].fields[1].value),
                            deltas |-> Append(F[k - 1].deltas,
                                              <<F32(lines[k].fields[2].value),
                                                F32(lines[k].fields[3].value),
                                                F32(lines[k].fields[4].value)>>)]
                      ELSE F[k - 1]
                 ELSE F[k - 1]
    IN F[Len(lines)]

\* for line in f (lines 143-160): the indices and deltas of the lines kept
ReadLines(lines, data) ==
    LET F[k \in 0..Len(lines)] ==
            IF k = 0 THEN data
            ELSE IF KeptLine(lines[k])
                 THEN [indices |-> Append(F[k - 1].indices, lines[k].fields[1].value),
                       deltas |-> Append(F[k - 1].deltas,
                                         <<F32(lines[k].fields[2].value),
                                           F32(lines[k].fields[3].value),
                                           F32(lines[k].fields[4].value)>>)]
                 ELSE F[k - 1]
    IN F[Len(lines)]

\* what the file at a path holds (the path is the file's folder and name)
FileAt(files, path) == CHOOSE f \in files : f.name = path

\* the data made of what was read: None when no line was kept (lines 165-169)
DataOf(read) ==
    IF Len(read.indices) = 0 THEN NoData
    ELSE [loaded |-> TRUE, indices |-> read.indices, deltas |-> read.deltas]

\* TargetParser.load_target_data (lines 133-170): the entry after the call,
\* what the call returned and whether it opened the file
LoadTargetData(entry, files) ==
    IF entry.data.loaded
    THEN [entry |-> entry, result |-> entry.data, opened |-> FALSE]
    ELSE IF ~FileAt(files, entry.path).readable
    THEN [entry |-> entry, result |-> NoData, opened |-> TRUE]
    ELSE [entry |-> [entry EXCEPT !.data =
                        DataOf(ReadLines(FileAt(files, entry.path).lines,
                                         [indices |-> <<>>, deltas |-> <<>>]))],
          result |-> DataOf(ReadLines(FileAt(files, entry.path).lines,
                                      [indices |-> <<>>, deltas |-> <<>>])),
          opened |-> TRUE]

\* (mutant) every file with a tag is kept, whatever its folder
KeepTaggedAnywhere(folder, tags) == Len(tags.keys) > 0

\* the filter of scan_targets (lines 50-70)
Keep(folder, tags) ==
    IF folder = "macrodetails" THEN Len(tags.keys) > 0
    ELSE IF folder = "breast" THEN DictHas(tags, "cup")
    ELSE IF folder = "genitals"
    THEN \E i \in DOMAIN tags.keys :
            tags.keys[i] \in {"penis_len", "penis_circ", "penis_test"}
    ELSE FALSE

\* the entry appended for a file kept (lines 73-78)
NewEntry(file) ==
    [path |-> file.name, tags |-> ParseFilename(file.name.words), data |-> NoData]

\* the folder os.walk is in: the first of base_folders with files left
CurrentFolder(todo) ==
    BaseFolders[CHOOSE i \in DOMAIN BaseFolders :
                    /\ \E f \in todo : f.name.folder = BaseFolders[i]
                    /\ \A j \in 1..(i - 1) : \A f \in todo : f.name.folder # BaseFolders[j]]

\* the factor tables solve_mesh is run with on the scanned targets
ScanFactorTables ==
    { [n \in {"female", "young", "male", "old", "caucasian", "maxcup",
              "averagefirmness", "penis-length-incr", "universal"} |-> 1],
      [n \in {"female", "young", "male", "old", "caucasian", "maxcup",
              "averagefirmness", "penis-length-incr"} |-> IF n = "male" THEN 0 ELSE 2] }

\* the base mesh the scanned targets are applied to
ScanBaseMesh == [v \in 0..(MVertexCount - 1) |-> <<v, 0, 0>>]

TInit ==
    /\ \E names \in SUBSET TargetFileNames :
          /\ Cardinality(names) <= MaxFiles
          /\ \E lines \in [names -> FileContents], readable \in [names -> BOOLEAN] :
                t_files = {[name |-> n, lines |-> lines[n], readable |-> readable[n]] :
                             n \in names}
    /\ t_todo = t_files
    /\ t_pc = "scan"
    /\ t_targets = <<>>
    /\ t_first = <<>>
    /\ t_call = NoCall
    /\ t_out = NoCall

TIdle ==
    /\ t_files = {}
    /\ t_todo = {}
    /\ t_pc = "off"
    /\ t_targets = <<>>
    /\ t_first = <<>>
    /\ t_call = NoCall
    /\ t_out = NoCall

\* scan_targets, one file of os.walk (lines 42-80): a .target file that
\* passes the filter is appended and loaded at once
ScanFile ==
    /\ UNCHANGED notT
    /\ t_pc = "scan"
    /\ \E file \in t_todo :
          /\ file.name.folder = CurrentFolder(t_todo)
          /\ t_todo' = t_todo \ {file}
          /\ IF file.name.ext = ".target"
                /\ Keep(file.name.folder, ParseFilename(file.name.words))
             THEN \E r \in {LoadTargetData(NewEntry(file), t_files)} :
                     /\ t_targets' = Append(t_targets, r.entry)
                     /\ t_first' = Append(t_first, r.result)
             ELSE UNCHANGED <<t_targets, t_first>>
    /\ UNCHANGED <<t_files, t_pc, t_call, t_out>>

\* scan_targets returns all_targets (lines 82-83)
ScanEnd ==
    /\ UNCHANGED notT
    /\ t_pc = "scan"
    /\ t_todo = {}
    /\ t_pc' = "ready"
    /\ UNCHANGED <<t_files, t_todo, t_targets, t_first, t_call, t_out>>

\* a later load_target_data call on an entry of the scanned list
LoadAgain ==
    /\ UNCHANGED notT
    /\ t_pc = "ready"
    /\ \E i \in DOMAIN t_targets :
          \E r \in {LoadTargetData(t_targets[i], t_files)} :
             /\ t_targets' = [t_targets EXCEPT ![i] = r.entry]
             /\ t_call' = [called |-> TRUE, index |-> i, before |-> t_targets[i],
                           result |-> r.result, opened |-> r.opened]
    /\ UNCHANGED <<t_files, t_todo, t_pc, t_first, t_out>>

\* solve_mesh on the scanned targets
SolveScanned ==
    /\ UNCHANGED notT
    /\ t_pc = "ready"
    /\ \E factors \in ScanFactorTables :
          t_out' = [called |-> TRUE, factors |-> factors, raised |-> FALSE,
                    verts |-> ApplyTargets(ScanBaseMesh, t_targets, 1, factors)]
    /\ UNCHANGED <<t_files, t_todo, t_pc, t_targets, t_first, t_call>>

(***************************************************************************)
(* IKSolver.solve_ik (cyclic coordinate descent)                           *)
(* Positions are integer vectors and every rotation met is a quarter turn  *)
(* about a coordinate axis, so that norms, unit vectors and rotation       *)
(* matrices are exact; sqrt and the unit vector of a direction are defined *)
(* by CHOOSE and have no value outside that lattice.                       *)
(***************************************************************************)
VecSub(a, b) == <<a[1] - b[1], a[2] - b[2], a[3] - b[3]>>
VecDot(a, b) == a[1] * b[1] + a[2] * b[2] + a[3] * b[3]

\* np.cross
Cross(a, b) ==
    <<a[2] * b[3] - a[3] * b[2], a[3] * b[1] - a[1] * b[3], a[1] * b[2] - a[2] * b[1]>>

\* la.norm: the square root of the sum of squares
Norm(v) == CHOOSE n \in 0..VecDot(v, v) : n * n = VecDot(v, v)

\* v / la.norm(v)
UnitVectors ==
    {<<1, 0, 0>>, <<-1, 0, 0>>, <<0, 1, 0>>, <<0, -1, 0>>, <<0, 0, 1>>, <<0, 0, -1>>}
Normalised(v) == CHOOSE u \in UnitVectors : VecScale(Norm(v), u) = v

\* the first three coordinates of mat applied to the direction (v, 0)
MatDirection(mat, v) ==
    <<mat[1][1] * v[1] + mat[1][2] * v[2] + mat[1][3] * v[3],
      mat[2][1] * v[1] + mat[2][2] * v[2] + mat[2][3] * v[3],
      mat[3][1] * v[1] + mat[3][2] * v[2] + mat[3][3] * v[3]>>

\* matrix.translate
Translate(t) == << <<1, 0, 0, t[1]>>, <<0, 1, 0, t[2]>>, <<0, 0, 1, t[3]>>, <<0, 0, 0, 1>> >>

\* tm.rotation_matrix(angle, axis) for the angle arctan2(sin_angle,
\* cos_angle) and a unit axis (x, y, z). With a = cos(angle/2) and (b, c, d) =
\* axis * sin(angle/2): aa + bb - cc - dd = cos + (1 - cos) x x and
\* 2 (bc - ad) = (1 - cos) x y - sin z, and so on
RotationMatrix(sin_angle, cos_angle, axis) ==
    << <<cos_angle + (1 - cos_angle) * axis[1] * axis[1],
         (1 - cos_angle) * axis[1] * axis[2] - sin_angle * axis[3],
         (1 - cos_angle) * axis[1] * axis[3] + sin_angle * axis[2], 0>>,
       <<(1 - cos_angle) * axis[1] * axis[2] + sin_angle * axis[3],
         cos_angle + (1 - cos_angle) * axis[2] * axis[2],
         (1 - cos_angle) * axis[2] * axis[3] - sin_angle * axis[1], 0>>,
       <<(1 - cos_angle) * axis[1] * axis[3] - sin_angle * axis[2],
         (1 - cos_angle) * axis[2] * axis[3] + sin_angle * axis[1],
         cos_angle + (1 - cos_angle) * axis[3] * axis[3], 0>>,
       <<0, 0, 0, 1>> >>

\* the skeleton of the solver's tests: three bones in a line along Y
IKBoneNames == <<"root", "mid", "tip">>
IKParent(name) ==
    IF name = "root" THEN NoParent ELSE IF name = "mid" THEN "root" ELSE "mid"
HeadPos(name) ==
    IF name = "root" THEN <<0, 0, 0>>
    ELSE IF name = "mid" THEN <<0, 10, 0>> ELSE <<0, 20, 0>>

\* (mutant) a name the skeleton does not hold resolves to the root bone
GetBoneOrRoot(name) == IF name \in Range(IKBoneNames) THEN name ELSE "root"

\* skeleton.getBone(bone_name): None for a name the skeleton does not hold
GetBone(name) == IF name \in Range(IKBoneNames) THEN name ELSE NoParent

\* matPoseGlobal of Bone.update for a bone of this skeleton
IKPoseGlobal(skelBones, name) ==
    IF IKParent(name) # NoParent
    THEN MatMul(skelBones[IKParent(name)].matPoseGlobal,
                MatMul(skelBones[name].matRestRelative, skelBones[name].matPose))
    ELSE MatMul(skelBones[name].matRestRelative, skelBones[name].matPose)

\* b.update()
IKUpdated(skelBones, name) ==
    [skelBones EXCEPT ![name] = WithGlobal(skelBones[name], IKPoseGlobal(skelBones, name))]

\* for b in skeleton.getBones(): b.update()
UpdateAll(skelBones) == IKUpdated(IKUpdated(IKUpdated(skelBones, "root"), "mid"), "tip")

\* the test's MockBone as constructed, with the local translation the test
\* sets: the rest matrix is a translation to the head, update() multiplies the
\* parent's global matrix by the local pose alone, nothing is updated yet
MockBone(name) ==
    [matRestGlobal |-> Translate(HeadPos(name)), matRestRelative |-> Identity4,
     matPose |-> IF name = "root" THEN Identity4 ELSE Translate(<<0, 10, 0>>),
     matPoseGlobal |-> Identity4, matPoseVerts |-> Identity4]
MockBones == [n \in Range(IKBoneNames) |-> MockBone(n)]

\* the same three bones as Bone.build makes them: getMatrix of a bone along Y
\* with normal (0,0,1) has the columns x, the bone direction and z, then the head
IKRestGlobal(name) ==
    << <<0, 0, -1, HeadPos(name)[1]>>, <<0, 1, 0, HeadPos(name)[2]>>,
       <<1, 0, 0, HeadPos(name)[3]>>, <<0, 0, 0, 1>> >>
IKRestRelative(name) ==
    IF IKParent(name) # NoParent
    THEN MatMul(MatInv(IKRestGlobal(IKParent(name))), IKRestGlobal(name))
    ELSE IKRestGlobal(name)
BuiltBone(name) ==
    [matRestGlobal |-> IKRestGlobal(name), matRestRelative |-> IKRestRelative(name),
     matPose |-> Identity4, matPoseGlobal |-> NoMatrix, matPoseVerts |-> NoMatrix]
BuiltIKBones == UpdateAll([n \in Range(IKBoneNames) |-> BuiltBone(n)])

\* the skeletons solve_ik is given: the mock as constructed, the mock after the
\* test's skel.update(), and the built skeleton
IKSkeletons == {MockBones, UpdateAll(MockBones), BuiltIKBones}

\* Bound: the largest iteration cap tried besides the default and the test's
MaxIterations == 2
DefaultMaxIterations == 10
TestMaxIterations == 20
IterationCaps == 0..MaxIterations \cup {DefaultMaxIterations, TestMaxIterations}

\* tolerance = 0.01
ToleranceInv == 100

\* the targets tried with each end effector and chain length: from every pivot
\* of the chain the target lies on a coordinate axis through the pivot or in
\* line with the end effector
IKTargets(bone_name, chain_length) ==
    IF bone_name = "tip" /\ chain_length = 2
    THEN {<<10, 10, 0>>, <<-10, 10, 0>>, <<20, 10, 0>>, <<0, 10, 10>>,
          <<0, 10, 0>>, <<0, 20, 0>>, <<0, 40, 0>>, <<0, -10, 0>>}
    ELSE IF bone_name = "tip" /\ chain_length = 3
    THEN {<<10, 10, 0>>, <<0, 10, -10>>, <<0, 20, 0>>, <<0, 40, 0>>}
    ELSE IF bone_name = "mid" /\ chain_length > 1
    THEN {<<10, 0, 0>>, <<0, 0, 20>>, <<0, 10, 0>>, <<0, -10, 0>>, <<0, 0, 0>>}
    ELSE {<<10, 10, 0>>, <<0, 20, 0>>, <<3, 4, 5>>}

IKCalls ==
    UNION {{[bone_name |-> b, target_pos |-> t, chain_length |-> c,
             max_iterations |-> m] : t \in IKTargets(b, c), m \in IterationCaps} :
           b \in Range(IKBoneNames) \cup {"nosuch"}, c \in 1..3}

RECURSIVE BuildChain(_, _)

\* (mutant) the walk up the parents is not cut at chain_length
BuildChainToRoot(current, chain_length) ==
    IF IKParent(current) = NoParent THEN <<current>>
    ELSE <<current>> \o BuildChain(IKParent(current), chain_length)

\* lines 53-57: the end effector and up to chain_length - 1 ancestors
BuildChain(current, chain_length) ==
    IF chain_length = 0 THEN <<>>
    ELSE IF IKParent(current) = NoParent THEN <<current>>
    ELSE <<current>> \o BuildChain(IKParent(current), chain_length - 1)

\* (mutant) range(max_iterations + 1)
CapReachedInclusive(iteration, max_iterations) == iteration > max_iterations

\* for iteration in range(max_iterations): no pass is left
CapReached(iteration, max_iterations) == iteration >= max_iterations

\* lines 88-90: the end effector's rest head through its skinning matrix
EffectorPos(skelBones, end_effector) ==
    MatApply(skelBones[end_effector].matPoseVerts, HeadPos(end_effector))

\* dist < tolerance, squared: |target - cur_global|^2 < (1 / ToleranceInv)^2
Converged(target, cur_global) ==
    VecDot(VecSub(target, cur_global), VecSub(target, cur_global))
        * ToleranceInv * ToleranceInv < 1

\* lines 100-102
Pivot(skelBones, name) == MatApply(skelBones[name].matPoseVerts, HeadPos(name))

\* len_eff < 1e-6 or len_tgt < 1e-6 (line 114), or sin_angle < 1e-6 (line 128):
\* of integer vectors, a zero vector or a zero cross product (the sine of the
\* angle is the norm of the cross product over the two lengths)
SkippedAt(to_effector, to_target) ==
    \/ VecDot(to_effector, to_effector) = 0
    \/ VecDot(to_target, to_target) = 0
    \/ Cross(to_effector, to_target) = <<0, 0, 0>>

Skipped(skelBones, name, cur_global, target) ==
    SkippedAt(VecSub(cur_global, Pivot(skelBones, name)),
              VecSub(target, Pivot(skelBones, name)))

\* lines 202-205: the axis as a direction of the bone's own frame
LocalAxis(matPoseGlobal, axis) == Normalised(MatDirection(MatInv(matPoseGlobal), axis))

\* (mutant) the translation column is cleared, not put back
RestoreTranslationCleared(mat, orig) ==
    << <<mat[1][1], mat[1][2], mat[1][3], 0>>,
       <<mat[2][1], mat[2][2], mat[2][3], 0>>,
       <<mat[3][1], mat[3][2], mat[3][3], 0>>, mat[4] >>

\* lines 216-217: the translation column put back
RestoreTranslation(mat, orig) ==
    << <<mat[1][1], mat[1][2], mat[1][3], orig[1][4]>>,
       <<mat[2][1], mat[2][2], mat[2][3], orig[2][4]>>,
       <<mat[3][1], mat[3][2], mat[3][3], orig[3][4]>>, mat[4] >>

Column(mat, j) == <<mat[1][j], mat[2][j], mat[3][j]>>

\* lines 222-224: each basis column divided by its norm
WithColumns(mat, x, y, z) ==
    << <<x[1], y[1], z[1], mat[1][4]>>, <<x[2], y[2], z[2], mat[2][4]>>,
       <<x[3], y[3], z[3], mat[3][4]>>, mat[4] >>
NormaliseColumns(mat) ==
    WithColumns(mat, Normalised(Column(mat, 1)), Normalised(Column(mat, 2)),
                Normalised(Column(mat, 3)))

\* (mutant) the rotated matrix is computed and not stored
RotatedPoseDiscarded(bone, sin_angle, cos_angle, axis) == bone.matPose

\* lines 208-224: the local pose after the rotation
RotatedPose(bone, sin_angle, cos_angle, axis) ==
    NormaliseColumns(RestoreTranslation(
        MatMul(bone.matPose,
               RotationMatrix(sin_angle, cos_angle, LocalAxis(bone.matPoseGlobal, axis))),
        bone.matPose))

\* lines 117-132: the unit vectors u and v, the axis cross(u, v) / sin_angle
\* and the angle arctan2(sin_angle, cos_angle)
RotatedTowards(bone, u, v) ==
    RotatedPose(bone, Norm(Cross(u, v)), VecDot(u, v), Normalised(Cross(u, v)))

\* (mutant) the bone is turned and the skeleton is not updated before the
\* next bone of the pass
RotatedNotUpdated(skelBones, name, cur_global, target) ==
    [skelBones EXCEPT ![name].matPose =
        RotatedTowards(skelBones[name],
                       Normalised(VecSub(cur_global, Pivot(skelBones, name))),
                       Normalised(VecSub(target, Pivot(skelBones, name))))]

\* lines 100-236: the bone turned so that the end effector moves towards the
\* target, and the whole skeleton updated
Rotated(skelBones, name, cur_global, target) ==
    UpdateAll([skelBones EXCEPT ![name].matPose =
        RotatedTowards(skelBones[name],
                       Normalised(VecSub(cur_global, Pivot(skelBones, name))),
                       Normalised(VecSub(target, Pivot(skelBones, name))))])

\* math.atan2 in degrees, of coordinates in -1..1
Atan2Deg(y, x) ==
    CASE x = 1 /\ y = 0 -> 0
      [] x = 1 /\ y = 1 -> 45
      [] x = 0 /\ y = 1 -> 90
      [] x = -1 /\ y = 1 -> 135
      [] x = -1 /\ y = 0 -> 180
      [] x = -1 /\ y = -1 -> -135
      [] x = 0 /\ y = -1 -> -90
      [] x = 1 /\ y = -1 -> -45
      [] x = 0 /\ y = 0 -> 0

\* tm.euler_from_matrix(matPose, 'rzyx') in degrees: the static x-y-z
\* decomposition with the first and last angle exchanged
EulerAngles(mat, cy) ==
    IF cy > 0
    THEN <<Atan2Deg(mat[2][1], mat[1][1]), Atan2Deg(0 - mat[3][1], cy),
           Atan2Deg(mat[3][2], mat[3][3])>>
    ELSE <<0, Atan2Deg(0 - mat[3][1], cy), Atan2Deg(0 - mat[2][3], mat[2][2])>>
EulerFromMatrix(mat) == EulerAngles(mat, Norm(<<mat[1][1], mat[2][1], 0>>))

\* lines 244-252
Eulers(skelBones, chain) ==
    [n \in Range(chain) |-> EulerFromMatrix(skelBones[n].matPose)]

NoResult == [returned |-> FALSE]
Returned(rotations) == [returned |-> TRUE, rotations |-> rotations]
\* the dict {}
EmptyResult == [n \in {} |-> <<0, 0, 0>>]

KInit ==
    /\ k_bones \in IKSkeletons
    /\ k_before = k_bones
    /\ k_call = NoCall
    /\ k_chain = <<>>
    /\ k_pc = "idle"
    /\ k_iteration = 0
    /\ k_idx = 0
    /\ k_cur = <<0, 0, 0>>
    /\ k_rotations = 0
    /\ k_result = NoResult

KIdle ==
    /\ k_bones = MockBones
    /\ k_before = MockBones
    /\ k_call = NoCall
    /\ k_chain = <<>>
    /\ k_pc = "off"
    /\ k_iteration = 0
    /\ k_idx = 0
    /\ k_cur = <<0, 0, 0>>
    /\ k_rotations = 0
    /\ k_result = NoResult

\* lines 46-51: the end effector is not a bone of the skeleton
SolveUnknown ==
    /\ UNCHANGED notK
    /\ k_pc = "idle"
    /\ \E call \in IKCalls :
        /\ GetBone(call.bone_name) = NoParent
        /\ k_call' = call
    /\ k_result' = Returned(EmptyResult)
    /\ k_pc' = "done"
    /\ UNCHANGED <<k_bones, k_before, k_chain, k_iteration, k_idx, k_cur, k_rotations>>

\* lines 46-61: the chain is built
SolveBegin ==
    /\ UNCHANGED notK
    /\ k_pc = "idle"
    /\ \E call \in IKCalls :
        /\ GetBone(call.bone_name) # NoParent
        /\ k_call' = call
        /\ k_chain' = BuildChain(GetBone(call.bone_name), call.chain_length)
    /\ k_pc' = "pass"
    /\ UNCHANGED <<k_bones, k_before, k_iteration, k_idx, k_cur, k_rotations, k_result>>

\* lines 64-94: a pass begins with every bone updated; the end effector is
\* within the tolerance and the loop is left
PassConverged ==
    /\ UNCHANGED notK
    /\ k_pc = "pass"
    /\ ~CapReached(k_iteration, k_call.max_iterations)
    /\ \E updated \in {UpdateAll(k_bones)} :
        /\ Converged(k_call.target_pos, EffectorPos(updated, k_chain[1]))
        /\ k_bones' = updated
        /\ k_cur' = EffectorPos(updated, k_chain[1])
    /\ k_iteration' = k_iteration + 1
    /\ k_pc' = "extract"
    /\ UNCHANGED <<k_before, k_call, k_chain, k_idx, k_rotations, k_result>>

\* lines 64-97: a pass begins and goes on to the chain
PassStart ==
    /\ UNCHANGED notK
    /\ k_pc = "pass"
    /\ ~CapReached(k_iteration, k_call.max_iterations)
    /\ \E updated \in {UpdateAll(k_bones)} :
        /\ ~Converged(k_call.target_pos, EffectorPos(updated, k_chain[1]))
        /\ k_bones' = updated
        /\ k_cur' = EffectorPos(updated, k_chain[1])
    /\ k_iteration' = k_iteration + 1
    /\ k_idx' = 1
    /\ k_pc' = "bone"
    /\ UNCHANGED <<k_before, k_call, k_chain, k_rotations, k_result>>

\* line 64: range(max_iterations) is exhausted
PassesExhausted ==
    /\ UNCHANGED notK
    /\ k_pc = "pass"
    /\ CapReached(k_iteration, k_call.max_iterations)
    /\ k_pc' = "extract"
    /\ UNCHANGED <<k_bones, k_before, k_call, k_chain, k_iteration, k_idx, k_cur,
                   k_rotations, k_result>>

\* lines 97-129: a bone of the chain is passed over
BoneSkipped ==
    /\ UNCHANGED notK
    /\ k_pc = "bone"
    /\ k_idx <= Len(k_chain)
    /\ Skipped(k_bones, k_chain[k_idx], k_cur, k_call.target_pos)
    /\ k_idx' = k_idx + 1
    /\ UNCHANGED <<k_bones, k_before, k_call, k_chain, k_pc, k_iteration, k_cur,
                   k_rotations, k_result>>

\* lines 97-241: a bone of the chain is turned
BoneRotated ==
    /\ UNCHANGED notK
    /\ k_pc = "bone"
    /\ k_idx <= Len(k_chain)
    /\ ~Skipped(k_bones, k_chain[k_idx], k_cur, k_call.target_pos)
    /\ \E updated \in {Rotated(k_bones, k_chain[k_idx], k_cur, k_call.target_pos)} :
        /\ k_bones' = updated
        /\ k_cur' = EffectorPos(updated, k_chain[1])
    /\ k_rotations' = k_rotations + 1
    /\ k_idx' = k_idx + 1
    /\ UNCHANGED <<k_before, k_call, k_chain, k_pc, k_iteration, k_result>>

\* line 97: the chain is exhausted, the next pass
ChainEnd ==
    /\ UNCHANGED notK
    /\ k_pc = "bone"
    /\ k_idx > Len(k_chain)
    /\ k_pc' = "pass"
    /\ UNCHANGED <<k_bones, k_before, k_call, k_chain, k_iteration, k_idx, k_cur,
                   k_rotations, k_result>>

\* lines 243-254
ExtractEulers ==
    /\ UNCHANGED notK
    /\ k_pc = "extract"
    /\ k_result' = Returned(Eulers(k_bones, k_chain))
    /\ k_pc' = "done"
    /\ UNCHANGED <<k_bones, k_before, k_call, k_chain, k_iteration, k_idx, k_cur,
                   k_rotations>>

(***************************************************************************)
(* PoseTransfer.apply_pose                                                 *)
(* Bones and landmark segments lie along coordinate axes, so that every    *)
(* direction met is one of the six unit vectors and every alignment is the *)
(* identity, a half turn or a quarter turn.                                *)
(***************************************************************************)
\* CHAINS (lines 53-69)
CHAINS ==
    << <<"upperarm_l", "r_shoulder", "r_elbow">>, <<"lowerarm_l", "r_elbow", "r_wrist">>,
       <<"upperarm_r", "l_shoulder", "l_elbow">>, <<"lowerarm_r", "l_elbow", "l_wrist">>,
       <<"thigh_l", "r_hip", "r_knee">>, <<"calf_l", "r_knee", "r_ankle">>,
       <<"thigh_r", "l_hip", "l_knee">>, <<"calf_r", "l_knee", "l_ankle">> >>

\* the skeleton posed: the bones of the left arm, in boneslist order; the
\* hand is in no entry of CHAINS
ArmBoneNames == <<"clavicle_l", "upperarm_l", "lowerarm_l", "hand_l">>
ArmParent(name) ==
    IF name = "clavicle_l" THEN NoParent
    ELSE IF name = "upperarm_l" THEN "clavicle_l"
    ELSE IF name = "lowerarm_l" THEN "upperarm_l" ELSE "lowerarm_l"

\* the joints of two rigs: an arm stretched along X, and an arm whose lower
\* arm points up at rest
ArmRigs == {"straight", "bent"}
ArmHead(arm_rig, name) ==
    IF name = "clavicle_l" THEN <<0, 0, 0>>
    ELSE IF name = "upperarm_l" THEN <<1, 0, 0>>
    ELSE IF name = "lowerarm_l" THEN <<3, 0, 0>>
    ELSE IF arm_rig = "straight" THEN <<5, 0, 0>> ELSE <<3, 2, 0>>
ArmTail(arm_rig, name) ==
    IF name = "clavicle_l" THEN <<1, 0, 0>>
    ELSE IF name = "upperarm_l" THEN <<3, 0, 0>>
    ELSE IF name = "lowerarm_l"
         THEN IF arm_rig = "straight" THEN <<5, 0, 0>> ELSE <<3, 2, 0>>
    ELSE IF arm_rig = "straight" THEN <<6, 0, 0>> ELSE <<3, 3, 0>>

\* getMatrix, lines 150-173, for a bone of non-zero length: the columns are
\* x, the bone direction and z, then the head
ZAxis(normal, bone_direction) ==
    IF Cross(normal, bone_direction) # <<0, 0, 0>>
    THEN Normalised(Cross(normal, bone_direction))
    ELSE IF bone_direction[3] # 0
         THEN Normalised(Cross(<<1, 0, 0>>, bone_direction))
         ELSE Normalised(Cross(<<0, 0, 1>>, bone_direction))
BaseMatrix(x_axis, y_axis, z_axis, head) ==
    << <<x_axis[1], y_axis[1], z_axis[1], head[1]>>,
       <<x_axis[2], y_axis[2], z_axis[2], head[2]>>,
       <<x_axis[3], y_axis[3], z_axis[3], head[3]>>, <<0, 0, 0, 1>> >>
GetMatrixAlong(bone_direction, z_axis, head) ==
    BaseMatrix(Normalised(Cross(bone_direction, z_axis)), bone_direction, z_axis, head)
GetMatrix(head, tail, normal) ==
    GetMatrixAlong(Normalised(VecSub(tail, head)),
                   ZAxis(normal, Normalised(VecSub(tail, head))), head)

\* Bone.update for a bone whose parent is given (NoParent for a root)
GlobalUnder(skelBones, name, parent) ==
    IF parent # NoParent
    THEN MatMul(skelBones[parent].matPoseGlobal,
                MatMul(skelBones[name].matRestRelative, skelBones[name].matPose))
    ELSE MatMul(skelBones[name].matRestRelative, skelBones[name].matPose)
UpdatedUnder(skelBones, name, parent) ==
    [skelBones EXCEPT ![name] = WithGlobal(skelBones[name],
                                           GlobalUnder(skelBones, name, parent))]

\* Bone.build (lines 218-234) with get_normal of roll 0, ending with update()
RestUnder(skelBones, parent, rest) ==
    IF parent # NoParent THEN MatMul(MatInv(skelBones[parent].matRestGlobal), rest)
    ELSE rest
BuiltUnder(skelBones, name, parent, rest) ==
    UpdatedUnder([skelBones EXCEPT ![name].matRestGlobal = rest,
                      ![name].matRestRelative = RestUnder(skelBones, parent, rest)],
                 name, parent)
ArmBuild(skelBones, name) ==
    BuiltUnder(skelBones, name, ArmParent(name),
               GetMatrix(skelBones[name].headPos, skelBones[name].tailPos, <<0, 0, 1>>))

\* the arm as fromFile and updateJointPositions leave it
ArmFresh(arm_rig) ==
    [n \in Range(ArmBoneNames) |->
        [headPos |-> ArmHead(arm_rig, n), tailPos |-> ArmTail(arm_rig, n),
         matRestGlobal |-> NoMatrix, matRestRelative |-> NoMatrix,
         matPose |-> Identity4, matPoseGlobal |-> NoMatrix, matPoseVerts |-> NoMatrix]]
ArmBuilt(arm_rig) ==
    ArmBuild(ArmBuild(ArmBuild(ArmBuild(ArmFresh(arm_rig), "clavicle_l"), "upperarm_l"),
                      "lowerarm_l"), "hand_l")

\* (mutant) the bone's global matrices are left as they were
ArmNotUpdated(skelBones, name) == skelBones

ArmUpdate(skelBones, name) == UpdatedUnder(skelBones, name, ArmParent(name))

\* the arm as an earlier request left it: a local pose on the upper arm, and
\* every bone updated
ArmPosed(arm_rig, pose) ==
    ArmUpdate(ArmUpdate(ArmUpdate(ArmUpdate(
        [ArmBuilt(arm_rig) EXCEPT !["upperarm_l"].matPose = pose],
        "clavicle_l"), "upperarm_l"), "lowerarm_l"), "hand_l")
ArmSkeletons == {ArmPosed(r, pose) : r \in ArmRigs, pose \in PoseRotations}

\* lines 86-88: every bone, in list order, gets the identity pose and update()
ResetBone(skelBones, name) ==
    ArmUpdate([skelBones EXCEPT ![name].matPose = Identity4], name)
ResetAll(skelBones) ==
    ResetBone(ResetBone(ResetBone(ResetBone(skelBones, "clavicle_l"), "upperarm_l"),
                        "lowerarm_l"), "hand_l")

\* openpose_data: the shoulder at the origin, the elbow and the wrist each a
\* segment of length 2 along an axis further on; the left arm's landmarks,
\* whose bones this skeleton lacks, may be there too; any landmark may be missing
ArmLandmarks(to_elbow, to_wrist) ==
    [k \in {"r_shoulder", "r_elbow", "r_wrist", "l_shoulder", "l_elbow"} |->
        IF k = "r_elbow" THEN VecScale(2, to_elbow)
        ELSE IF k = "r_wrist" THEN VecAdd(VecScale(2, to_elbow), VecScale(2, to_wrist))
        ELSE IF k = "l_elbow" THEN <<0, 2, 0>> ELSE <<0, 0, 0>>]
Restrict(f, S) == [k \in S |-> f[k]]
LandmarkSets ==
    {S \cup L : S \in SUBSET {"r_shoulder", "r_elbow", "r_wrist"},
                L \in {{}, {"l_shoulder", "l_elbow"}}}
OpenPoseData ==
    {Restrict(ArmLandmarks(a, b), S) : a \in UnitVectors, b \in UnitVectors,
                                       S \in LandmarkSets}

\* lines 106-111: end - start with the Y coordinate negated
TargetUser(op_dict, op_start, op_end) ==
    <<op_dict[op_end][1] - op_dict[op_start][1],
      0 - (op_dict[op_end][2] - op_dict[op_start][2]),
      op_dict[op_end][3] - op_dict[op_start][3]>>

\* lines 154-162
PrePose(skelBones, name) ==
    IF ArmParent(name) # NoParent
    THEN MatMul(skelBones[ArmParent(name)].matPoseGlobal, skelBones[name].matRestRelative)
    ELSE MatMul(Identity4, skelBones[name].matRestRelative)

\* matrix.rotx(180)
RotX180 == << <<1, 0, 0, 0>>, <<0, -1, 0, 0>>, <<0, 0, -1, 0>>, <<0, 0, 0, 1>> >>

\* matrix.rotate(angle_deg, axis) for the angle arccos(dot) between two unit
\* vectors, whose sine is the norm of their cross product
MatrixRotate(sin_angle, cos_angle, axis) == RotationMatrix(sin_angle, cos_angle, axis)

\* lines 189-199: dot > 0.999, dot < -0.999, or the rotation about the cross
\* product
Alignment(local_axis, local_target) ==
    IF VecDot(local_axis, local_target) * 1000 > 999 THEN Identity4
    ELSE IF VecDot(local_axis, local_target) * 1000 < -999 THEN RotX180
    ELSE MatrixRotate(Norm(Cross(local_axis, local_target)),
                      VecDot(local_axis, local_target),
                      Normalised(Cross(local_axis, local_target)))

\* lines 185-186: the rest direction through the inverse pre-pose matrix
LocalRestAxis(inv_pre_pose, rest_dir_global) ==
    Normalised(MatDirection(inv_pre_pose, rest_dir_global))

\* lines 175-199: the alignment in the frame of the pre-pose matrix
AlignedIn(inv_pre_pose, rest_dir_global, target_dir) ==
    Alignment(LocalRestAxis(inv_pre_pose, rest_dir_global),
              Normalised(MatDirection(inv_pre_pose, target_dir)))

\* lines 138-217: the local pose a chain entry gives its bone (the scale
\* matrix is the identity)
AlignedPose(skelBones, name, v_target_user) ==
    MatMul(AlignedIn(MatInv(PrePose(skelBones, name)),
                     Normalised(VecSub(skelBones[name].tailPos, skelBones[name].headPos)),
                     Normalised(v_target_user)),
           Identity4)

\* lines 98-103
EntrySkipped(skelBones, op_dict, entry) ==
    \/ entry[2] \notin DOMAIN op_dict
    \/ entry[3] \notin DOMAIN op_dict
    \/ entry[1] \notin DOMAIN skelBones

PInit ==
    /\ p_bones \in ArmSkeletons
    /\ p_data \in OpenPoseData
    /\ p_pc = "reset"
    /\ p_idx = 0
    /\ p_aligned = <<>>

PIdle ==
    /\ p_bones = ArmBuilt("straight")
    /\ p_data = <<>>
    /\ p_pc = "off"
    /\ p_idx = 0
    /\ p_aligned = <<>>

\* lines 86-94
ResetPose ==
    /\ UNCHANGED notP
    /\ p_pc = "reset"
    /\ p_bones' = ResetAll(p_bones)
    /\ p_idx' = 1
    /\ p_pc' = "chains"
    /\ UNCHANGED <<p_data, p_aligned>>

\* lines 97-103: a chain entry without its landmarks or without its bone
ChainSkipped ==
    /\ UNCHANGED notP
    /\ p_pc = "chains"
    /\ p_idx <= Len(CHAINS)
    /\ EntrySkipped(p_bones, p_data, CHAINS[p_idx])
    /\ p_idx' = p_idx + 1
    /\ UNCHANGED <<p_bones, p_data, p_pc, p_aligned>>

\* lines 97-220: the bone of a chain entry is aligned and updated
ChainAligned ==
    /\ UNCHANGED notP
    /\ p_pc = "chains"
    /\ p_idx <= Len(CHAINS)
    /\ ~EntrySkipped(p_bones, p_data, CHAINS[p_idx])
    /\ p_bones' = ArmUpdate(
          [p_bones EXCEPT ![CHAINS[p_idx][1]].matPose =
              AlignedPose(p_bones, CHAINS[p_idx][1],
                          TargetUser(p_data, CHAINS[p_idx][2], CHAINS[p_idx][3]))],
          CHAINS[p_idx][1])
    /\ p_aligned' = Append(p_aligned, CHAINS[p_idx][1])
    /\ p_idx' = p_idx + 1
    /\ UNCHANGED <<p_data, p_pc>>

\* line 97: CHAINS is exhausted
ChainsEnd ==
    /\ UNCHANGED notP
    /\ p_pc = "chains"
    /\ p_idx > Len(CHAINS)
    /\ p_pc' = "done"
    /\ UNCHANGED <<p_bones, p_data, p_idx, p_aligned>>

(***************************************************************************)
(* Skeleton.addBone, Skeleton.copy, updateJointPositions and the sweep     *)
(* "for bone in skeleton.getBones(): bone.update()"                        *)
(***************************************************************************)
\* Skeleton.addBone (lines 452-457)
AddBone(skel, name, parentName, ref, w_ref) ==
    [bones |-> [n \in DOMAIN skel.bones \cup {name} |->
                   IF n = name THEN NewBone(skel.bones, name, parentName, ref, w_ref)
                   ELSE skel.bones[n]],
     boneslist |-> Append(skel.boneslist, name),
     roots |-> IF NewBone(skel.bones, name, parentName, ref, w_ref).parent = NoParent
               THEN Append(skel.roots, name) ELSE skel.roots]

\* Skeleton(self.name): no bones yet
EmptySkeleton == [bones |-> <<>>, boneslist |-> <<>>, roots |-> <<>>]

RECURSIVE CopyBones(_, _, _, _)
RECURSIVE CopyBonesUnparented(_, _, _, _)

\* (mutant) the bones are copied without their parents' names
CopyBonesUnparented(srcBones, blist, i, new_skel) ==
    IF i > Len(blist) THEN new_skel
    ELSE CopyBonesUnparented(srcBones, blist, i + 1,
                             AddBone(new_skel, blist[i], NoParent,
                                     srcBones[blist[i]].reference_bones,
                                     srcBones[blist[i]].weight_reference_bones))

\* Skeleton.copy (lines 481-500): every bone of boneslist, in order, is added
\* to the new skeleton under its parent's name
CopyBones(srcBones, blist, i, new_skel) ==
    IF i > Len(blist) THEN new_skel
    ELSE CopyBones(srcBones, blist, i + 1,
                   AddBone(new_skel, blist[i], srcBones[blist[i]].parent,
                           srcBones[blist[i]].reference_bones,
                           srcBones[blist[i]].weight_reference_bones))

\* the joints of the mesh: where each bone's head and tail lie
JointHead(name) ==
    CASE name = "pelvis" -> <<0, 0, 0>>
      [] name = "spine_03" -> <<0, 1, 0>>
      [] name = "head" -> <<0, 3, 0>>
      [] name = "clavicle_l" -> <<0, 3, 0>>
      [] name = "upperarm_l" -> <<1, 3, 0>>
JointTail(name) ==
    CASE name = "pelvis" -> <<0, 1, 0>>
      [] name = "spine_03" -> <<0, 3, 0>>
      [] name = "head" -> <<0, 4, 0>>
      [] name = "clavicle_l" -> <<1, 3, 0>>
      [] name = "upperarm_l" -> <<3, 3, 0>>

\* getJointPosition (lines 465-474): the joint's place when the skeleton knows
\* the joint's vertices, the origin otherwise
JointPosition(pos, joints_known) == IF joints_known THEN pos ELSE <<0, 0, 0>>

\* getMatrix (lines 135-175): a bone of zero length gets the identity rotation
RestMatrix(head, tail) ==
    IF head = tail THEN Translate(head) ELSE GetMatrix(head, tail, <<0, 0, 1>>)

\* the pose matrices of the bones as Bone.__init__ leaves them
FreshMatrices(names) ==
    [n \in names |->
        [matRestGlobal |-> NoMatrix, matRestRelative |-> NoMatrix, matPose |-> Identity4,
         matPoseGlobal |-> NoMatrix, matPoseVerts |-> NoMatrix]]

\* Skeleton.updateJointPositions (lines 476-479): every bone, in list order,
\* is placed and built, and build() ends with update()
RECURSIVE BuildAll(_, _, _, _, _)
BuildAll(mats, skelBones, blist, i, joints_known) ==
    IF i > Len(blist) THEN mats
    ELSE BuildAll(BuiltUnder(mats, blist[i], skelBones[blist[i]].parent,
                             RestMatrix(JointPosition(JointHead(blist[i]), joints_known),
                                        JointPosition(JointTail(blist[i]), joints_known))),
                  skelBones, blist, i + 1, joints_known)

\* the local poses a request gives: bone.matPose = ... for the bones named
WithPoses(mats, poses) ==
    [n \in DOMAIN mats |-> [mats[n] EXCEPT !.matPose = poses[n]]]

\* for bone in skeleton.getBones(): bone.update()
RECURSIVE SweepAll(_, _, _, _)
SweepAll(mats, skelBones, blist, i) ==
    IF i > Len(blist) THEN mats
    ELSE SweepAll(UpdatedUnder(mats, blist[i], skelBones[blist[i]].parent),
                  skelBones, blist, i + 1)

\* the local poses a request may give the bones
PoseTables(skelBones) == [DOMAIN skelBones -> PoseRotations]

\* Skeleton.updateJointPositions on a skeleton whose bones are fresh
BuiltSkeleton(skel, joints_known) ==
    [bones |-> skel.bones, boneslist |-> skel.boneslist, roots |-> skel.roots,
     mats |-> BuildAll(FreshMatrices(DOMAIN skel.bones), skel.bones, skel.boneslist, 1,
                       joints_known)]

\* the built skeleton posed and swept once
SweptSkeleton(skel, poses) ==
    [skel EXCEPT !.mats = SweepAll(WithPoses(skel.mats, poses), skel.bones,
                                   skel.boneslist, 1)]

LoadedSkeleton == [bones |-> bones, boneslist |-> boneslist, roots |-> roots]

\* the bone definitions swept skeletons are read from: the file lists the
\* bones in one order, and the parents named put any bone before or after
\* its parent, on a cycle or under a parent the file does not define
SweepSortInit ==
    /\ input_bones \in [BoneNames -> ParentValues]
    /\ input_keys = SubSeq(AllBoneNames, 1, NBones)
    /\ pending = input_keys
    /\ scan = <<>>
    /\ added = {}
    /\ breadthfirst_bones = <<>>
    /\ progress = FALSE
    /\ pc = "while"
    /\ rig = "default"
    /\ bones = <<>>
    /\ boneslist = <<>>
    /\ roots = <<>>
    /\ vertexWeights = NoWeights
    /\ raised = ""

UInit ==
    /\ u_pc = "idle"
    /\ u_path = ""
    /\ u_skel = BuiltSkeleton(EmptySkeleton, FALSE)

UIdle ==
    /\ u_pc = "off"
    /\ u_path = ""
    /\ u_skel = BuiltSkeleton(EmptySkeleton, FALSE)

\* the skeleton fromFile returned, its joints placed on the mesh (fromFile
\* line 325), is posed and swept
SweepLoaded ==
    /\ UNCHANGED notU
    /\ pc = "done"
    /\ u_pc = "idle"
    /\ \E built \in {BuiltSkeleton(LoadedSkeleton, TRUE)} :
          \E poses \in PoseTables(bones) :
             u_skel' = SweptSkeleton(built, poses)
    /\ u_path' = "loaded"
    /\ u_pc' = "swept"

\* pose_studio.py lines 186-220: a copy of the skeleton is made, its joints
\* placed (the copy knows no joint: copy() stores the table under another
\* name), posed and swept
SweepCopy ==
    /\ UNCHANGED notU
    /\ pc = "done"
    /\ u_pc = "idle"
    /\ \E built \in {BuiltSkeleton(CopyBones(bones, boneslist, 1, EmptySkeleton), FALSE)} :
          \E poses \in PoseTables(bones) :
             u_skel' = SweptSkeleton(built, poses)
    /\ u_path' = "copy"
    /\ u_pc' = "swept"

(***************************************************************************)
(* solve_mesh on the factor tables of calculate_factors: the weight loop   *)
(* in exact rationals                                                      *)
(***************************************************************************)
\* the key of the factors dictionary under which a tag value is looked up
FactorName(tag) ==
    CASE tag = "penis-length-incr" -> "penis_length_incr"
      [] tag = "penis-length-decr" -> "penis_length_decr"
      [] tag = "penis-testicles-incr" -> "penis_testicles_incr"
      [] tag = "penis-testicles-decr" -> "penis_testicles_decr"
      [] tag = "penis-circ-incr" -> "penis_circ_incr"
      [] tag = "penis-circ-decr" -> "penis_circ_decr"
      [] OTHER -> tag

\* factors.get(name, default)
QFactorGet(factors, name, default) ==
    IF FactorName(name) \in DOMAIN factors THEN factors[FactorName(name)] ELSE default

\* the value one tag contributes (lines 274-277)
QTagFactor(tag_val, factors) ==
    IF tag_val.is_true THEN QFactorGet(factors, "universal", QOne)
    ELSE QFactorGet(factors, tag_val.tag, QZero)

\* weight < 0.001, of a rational n / d with d > 0: 1000 n < d, that is
\* n <= (d - 1) div 1000, which stays within the integers of the checker
BelowRelevant(weight) == weight[1] <= (weight[2] - 1) \div RelevantWeightInv

RECURSIVE QTargetWeight(_, _, _, _)

\* (mutant) the threshold is tested before the tag's factor is multiplied in
QTargetWeightTestedFirst(tags, i, weight, factors) ==
    IF i > Len(tags.keys) THEN [relevant |-> TRUE, weight |-> weight]
    ELSE IF BelowRelevant(weight) THEN [relevant |-> FALSE, weight |-> weight]
    ELSE QTargetWeight(tags, i + 1, QMul(weight, QTagFactor(tags.val[i], factors)),
                       factors)

\* the loop over target['tags'].items(): the running product, and whether it
\* stayed at or above 0.001 (lines 273-282)
QTargetWeight(tags, i, weight, factors) ==
    IF i > Len(tags.keys) THEN [relevant |-> TRUE, weight |-> weight]
    ELSE IF BelowRelevant(QMul(weight, QTagFactor(tags.val[i], factors)))
         THEN [relevant |-> FALSE,
               weight |-> QMul(weight, QTagFactor(tags.val[i], factors))]
         ELSE QTargetWeight(tags, i + 1, QMul(weight, QTagFactor(tags.val[i], factors)),
                            factors)

\* the names of the target files weighed, as the words between separators;
\* the tags come in the order of the words
WeighedFileWords ==
    { <<"universal", "female", "young", "averagemuscle", "averageweight">>,
      <<"universal", "male", "baby">>,
      <<"female", "baby", "maxcup", "averagefirmness">>,
      <<"caucasian", "male", "old", "minmuscle">>,
      <<"female", "child", "maxheight">>,
      <<"asian", "female", "averageweight">>,
      <<"penis", "length", "incr">>,
      <<"universal">> }

\* target['tags'] of each of them
WeighedTags == {ParseFilename(w) : w \in WeighedFileWords}

\* the sliders of the requests weighed: weight and height at the midpoint
EFactorsInit ==
    /\ f_input \in [age : AgeValues, gender : SliderValues, weight : {Q(1, 2)},
                    muscle : SliderValues, height : {Q(1, 2)},
                    breast_size : SliderValues, genital_size : SliderValues]
    /\ f_factors = NoFactors

EInit ==
    /\ e_pc = "idle"
    /\ e_weights = <<>>

EIdle ==
    /\ e_pc = "off"
    /\ e_weights = <<>>

\* solve_mesh (lines 263-283): the weight loop on every target, with the
\* factor table calculate_factors returned
WeighTargets ==
    /\ UNCHANGED notE
    /\ e_pc = "idle"
    /\ f_factors # NoFactors
    /\ e_weights' = [t \in WeighedTags |-> QTargetWeight(t, 1, QOne, f_factors)]
    /\ e_pc' = "done"

(***************************************************************************)
(* _ensure_data_loaded (nodes/character_studio.py, lines 15-72): the       *)
(* process-wide cache, filled on first use.  The node's generate runs on   *)
(* the host's worker thread and the preview endpoint on the server's       *)
(* thread; both call the loader, and threads interleave between its        *)
(* statements.                                                            *)
(***************************************************************************)

\* the two entry points that call the loader
Callers == {"node", "endpoint"}

\* calls begun in one run
MaxCalls == 3

\* CHARACTER_STUDIO_CACHE as the module defines it (lines 15-20)
EmptyCache ==
    [base_mesh |-> "None", targets |-> "None", parser |-> "None",
     skeleton |-> "None"]

\* reading a data file either gives its content or raises (open, the
\* number parsing of load_obj, json.load and the key look-ups of fromFile)
ReadOutcomes == {"read", "raises"}

LInit ==
    /\ l_files \in [mh_path : BOOLEAN, base_obj : BOOLEAN, mhskel : BOOLEAN]
    /\ l_cache = EmptyCache
    /\ l_pc = [c \in Callers |-> "idle"]
    /\ l_calls = 0

LIdle ==
    /\ l_files = <<>>
    /\ l_cache = <<>>
    /\ l_pc = [c \in Callers |-> "off"]
    /\ l_calls = 0

\* a caller enters _ensure_data_loaded
CallEnsure ==
    /\ UNCHANGED notL
    /\ l_calls < MaxCalls
    /\ \E c \in Callers :
        /\ l_pc[c] = "idle"
        /\ l_pc' = [l_pc EXCEPT ![c] = "guard"]
    /\ l_calls' = l_calls + 1
    /\ UNCHANGED <<l_files, l_cache>>

\* lines 30-31: the test that decides whether the data is loaded
IsLoaded(cache) == cache.base_mesh # "None"

\* lines 30-31: return at once when the guard finds the data loaded
Guard ==
    /\ UNCHANGED notL
    /\ \E c \in Callers :
        /\ l_pc[c] = "guard"
        /\ l_pc' = [l_pc EXCEPT ![c] =
                        IF IsLoaded(l_cache) THEN "returned" ELSE "paths"]
    /\ UNCHANGED <<l_files, l_cache, l_calls>>

\* lines 33-49: the data folder and base.obj must exist, else raise
FindPaths ==
    /\ UNCHANGED notL
    /\ \E c \in Callers :
        /\ l_pc[c] = "paths"
        /\ l_pc' = [l_pc EXCEPT ![c] =
                        IF l_files.mh_path /\ l_files.base_obj
                        THEN "base" ELSE "raised"]
    /\ UNCHANGED <<l_files, l_cache, l_calls>>

\* line 51: load_obj, its result stored in the cache
LoadBaseMesh ==
    /\ UNCHANGED notL
    /\ \E c \in Callers, outcome \in ReadOutcomes :
        /\ l_pc[c] = "base"
        /\ IF outcome = "read"
           THEN /\ l_cache' = [l_cache EXCEPT !.base_mesh = "loaded"]
                /\ l_pc' = [l_pc EXCEPT ![c] = "targets"]
           ELSE /\ l_cache' = l_cache
                /\ l_pc' = [l_pc EXCEPT ![c] = "raised"]
    /\ UNCHANGED <<l_files, l_calls>>

\* lines 54-55: scan_targets walks the folders (missing folders are passed
\* over, lines 35-40 of mh_parser.py) and its list is stored
ScanTargets ==
    /\ UNCHANGED notL
    /\ \E c \in Callers :
        /\ l_pc[c] = "targets"
        /\ l_pc' = [l_pc EXCEPT ![c] = "parser"]
    /\ l_cache' = [l_cache EXCEPT !.targets = "loaded"]
    /\ UNCHANGED <<l_files, l_calls>>

\* line 56: the parser is stored
StoreParser ==
    /\ UNCHANGED notL
    /\ \E c \in Callers :
        /\ l_pc[c] = "parser"
        /\ l_pc' = [l_pc EXCEPT ![c] = "skeleton"]
    /\ l_cache' = [l_cache EXCEPT !.parser = "loaded"]
    /\ UNCHANGED <<l_files, l_calls>>

\* lines 62-72: the skeleton is read when a rig file exists; without one
\* the call only warns and returns
LoadSkeleton ==
    /\ UNCHANGED notL
    /\ \E c \in Callers, outcome \in ReadOutcomes :
        /\ l_pc[c] = "skeleton"
        /\ IF l_files.mhskel /\ outcome = "read"
           THEN /\ l_cache' = [l_cache EXCEPT !.skeleton = "loaded"]
                /\ l_pc' = [l_pc EXCEPT ![c] = "returned"]
           ELSE /\ l_cache' = l_cache
                /\ l_pc' = [l_pc EXCEPT ![c] =
                                IF l_files.mhskel THEN "raised" ELSE "returned"]
    /\ UNCHANGED <<l_files, l_calls>>

\* the caller goes on after the return or the exception, and may call again
LeaveEnsure ==
    /\ UNCHANGED notL
    /\ \E c \in Callers :
        /\ l_pc[c] \in {"returned", "raised"}
        /\ l_pc' = [l_pc EXCEPT ![c] = "idle"]
    /\ UNCHANGED <<l_files, l_cache, l_calls>>

(***************************************************************************)
(* Specifications                                                          *)
(***************************************************************************)
InitSkel == SkelInit /\ WIdle /\ RIdle /\ SIdle /\ MIdle /\ FIdle
    /\ TIdle /\ KIdle /\ PIdle /\ UIdle /\ EIdle /\ LIdle
SpecSkel == InitSkel /\ [][SkelNext]_vars

InitWeights == WInit /\ SkelIdle /\ RIdle /\ SIdle /\ MIdle /\ FIdle
    /\ TIdle /\ KIdle /\ PIdle /\ UIdle /\ EIdle /\ LIdle
WNext == Construct
SpecWeights == InitWeights /\ [][WNext]_vars

InitRetarget == RInit /\ SkelIdle /\ WIdle /\ SIdle /\ MIdle /\ FIdle
    /\ TIdle /\ KIdle /\ PIdle /\ UIdle /\ EIdle /\ LIdle
RNext == Retarget
SpecRetarget == InitRetarget /\ [][RNext]_vars

InitSkin == SInit /\ SkelIdle /\ WIdle /\ RIdle /\ MIdle /\ FIdle
    /\ TIdle /\ KIdle /\ PIdle /\ UIdle /\ EIdle /\ LIdle
SNext == EndpointManualPose \/ PoseStudioApplyPose
SpecSkin == InitSkin /\ [][SNext]_vars

InitMorph == MInit /\ SkelIdle /\ WIdle /\ RIdle /\ SIdle /\ FIdle
    /\ TIdle /\ KIdle /\ PIdle /\ UIdle /\ EIdle /\ LIdle
MNext == SolveMeshCall
SpecMorph == InitMorph /\ [][MNext]_vars

InitFactors == FInit /\ SkelIdle /\ WIdle /\ RIdle /\ SIdle /\ MIdle
    /\ TIdle /\ KIdle /\ PIdle /\ UIdle /\ EIdle /\ LIdle
FNext == CalculateFactors
SpecFactors == InitFactors /\ [][FNext]_vars

InitTargets == TInit /\ SkelIdle /\ WIdle /\ RIdle /\ SIdle /\ MIdle /\ FIdle
    /\ KIdle /\ PIdle /\ UIdle /\ EIdle /\ LIdle
TNext == ScanFile \/ ScanEnd \/ LoadAgain \/ SolveScanned
SpecTargets == InitTargets /\ [][TNext]_vars

InitIK == KInit /\ SkelIdle /\ WIdle /\ RIdle /\ SIdle /\ MIdle /\ FIdle /\ TIdle
    /\ PIdle /\ UIdle /\ EIdle /\ LIdle
KNext == SolveUnknown \/ SolveBegin \/ PassConverged \/ PassStart \/ PassesExhausted \/ BoneSkipped \/ BoneRotated \/ ChainEnd \/ ExtractEulers
SpecIK == InitIK /\ [][KNext]_vars

InitPose == PInit /\ SkelIdle /\ WIdle /\ RIdle /\ SIdle /\ MIdle /\ FIdle /\ TIdle /\ KIdle
    /\ UIdle /\ EIdle /\ LIdle
PNext == ResetPose \/ ChainSkipped \/ ChainAligned \/ ChainsEnd
SpecPose == InitPose /\ [][PNext]_vars

InitSweep == SweepSortInit /\ UInit /\ WIdle /\ RIdle /\ SIdle /\ MIdle /\ FIdle /\ TIdle /\ KIdle /\ PIdle
    /\ EIdle /\ LIdle
SweepNext == PassBegin \/ ForStep \/ PassEnd \/ AddBoneStep \/ AddBonesEnd \/ LoadWeights \/ SweepLoaded \/ SweepCopy
SpecSweep == InitSweep /\ [][SweepNext]_vars

InitRelevance == EFactorsInit /\ EInit /\ SkelIdle /\ WIdle /\ RIdle /\ SIdle /\ MIdle /\ TIdle /\ KIdle /\ PIdle /\ UIdle
    /\ LIdle
RelevanceNext == CalculateFactors \/ WeighTargets
SpecRelevance == InitRelevance /\ [][RelevanceNext]_vars

InitLoader == LInit /\ SkelIdle /\ WIdle /\ RIdle /\ SIdle /\ MIdle /\ FIdle /\ TIdle /\ KIdle /\ PIdle /\ UIdle /\ EIdle
LoaderNext == CallEnsure \/ Guard \/ FindPaths \/ LoadBaseMesh \/ ScanTargets \/ StoreParser \/ LoadSkeleton \/ LeaveEnsure
SpecLoader == InitLoader /\ [][LoaderNext]_vars

(***************************************************************************)
(* Claims about Skeleton.fromFile                                          *)
(***************************************************************************)
\* the names reached from a bone by following parent names, at most n steps
RECURSIVE AncestorNames(_, _, _)
AncestorNames(defs, name, n) ==
    IF n = 0 \/ name \notin DOMAIN defs \/ defs[name] = NoParent THEN {}
    ELSE {defs[name]} \cup AncestorNames(defs, defs[name], n - 1)

ParentsDefined == \A b \in DOMAIN input_bones : input_bones[b] \in DOMAIN input_bones \cup {NoParent}
Acyclic == \A b \in DOMAIN input_bones :
               b \notin AncestorNames(input_bones, b, Cardinality(DOMAIN input_bones))
SortDone == pc \in {"addBones", "weights", "done", "raised"}

PositionsOf(s, x) == {i \in DOMAIN s : s[i] = x}

\* C1: for an acyclic bone definition set whose named parents are all defined,
\* whatever the input order, the ordering computed holds every bone exactly
\* once and holds each bone after its parent.
C1_ParentsFirst ==
    (SortDone /\ ParentsDefined /\ Acyclic) =>
        /\ \A b \in DOMAIN input_bones : Cardinality(PositionsOf(breadthfirst_bones, b)) = 1
        /\ Len(breadthfirst_bones) = Cardinality(DOMAIN input_bones)
        /\ \A i \in DOMAIN breadthfirst_bones :
              LET parent == input_bones[breadthfirst_bones[i]]
              IN parent # NoParent => \E j \in 1..(i - 1) : breadthfirst_bones[j] = parent

\* a chain of all the bones given child-first: the ordering needs several passes
C1_Witness ==
    /\ SortDone /\ ParentsDefined /\ Acyclic
    /\ \E b \in DOMAIN input_bones :
          Cardinality(AncestorNames(input_bones, b, NBones)) = NBones - 1
    /\ \A i \in DOMAIN input_keys :
          input_bones[input_keys[i]] # NoParent =>
              \E j \in DOMAIN input_keys : j > i /\ input_keys[j] = input_bones[input_keys[i]]
    /\ Len(breadthfirst_bones) = NBones

ResolvableBones == {b \in DOMAIN input_bones : RootedIn(input_bones, b, Cardinality(DOMAIN input_bones))}

\* C2: for a bone definition set with a parent cycle or an undefined parent name,
\* with or without a weights file, fromFile ends without raising and the
\* skeleton holds exactly the bones whose chain of parents ends at a parentless
\* bone.
C2_TruncatesWithoutRaising ==
    (pc \in {"done", "raised"} /\ ~(ParentsDefined /\ Acyclic)) =>
        /\ pc = "done" /\ raised = ""
        /\ DOMAIN bones = ResolvableBones
        /\ Range(boneslist) = ResolvableBones

(***************************************************************************)
(* Claims about VertexBoneWeights                                          *)
(***************************************************************************)
\* the vertices the raw input names
ReferencedInInput == RawVerts(w_input)

\* the weights stored for vertex v, over all bones
StoredWeights(d, v) ==
    LET F[i \in 0..Len(d.keys)] ==
            IF i = 0 THEN <<>>
            ELSE F[i - 1] \o Take(d.val[i].ws, PositionsIn(d.val[i].vs, {v}))
    IN F[Len(d.keys)]

\* the raw total of the shares of vertex v that do not exceed the threshold
DroppedTotal(d, v, wtotv) ==
    LET F[i \in 0..Len(d.keys)] ==
            IF i = 0 THEN 0
            ELSE F[i - 1] +
                 (IF v \in {d.val[i][k][1] : k \in DOMAIN d.val[i]}
                     /\ ~AboveThreshold(<<GroupTotal(d.val[i], v), wtotv>>)
                  THEN GroupTotal(d.val[i], v) ELSE 0)
    IN F[Len(d.keys)]

InputTotal(v) == SumGroups(w_input.val, v)

\* C3 as stated: the weights stored for every vertex some bone references sum to 1.
C3_SumIsOne ==
    vbw.loaded => \A v \in ReferencedInInput : FEq(FSum(StoredWeights(vbw.data, v)), FOne)

\* C3 (amended): the weights stored for a vertex some bone references sum to 1
\* less the shares of the vertex total that do not exceed 1e-4, which are
\* dropped; so they sum to 1 exactly when no bone's share is 1e-4 or less.
C3_SumIsOneLessDropped ==
    vbw.loaded =>
        \A v \in ReferencedInInput :
            IF InputTotal(v) = 0
            THEN FEq(FSum(StoredWeights(vbw.data, v)), FOne)
            ELSE /\ FEq(FAdd(FSum(StoredWeights(vbw.data, v)),
                             <<DroppedTotal(w_input, v, InputTotal(v)), InputTotal(v)>>),
                        FOne)
                 /\ (DroppedTotal(w_input, v, InputTotal(v)) = 0
                        <=> FEq(FSum(StoredWeights(vbw.data, v)), FOne))

\* a vertex with a large and a small share, and a vertex listed twice by a bone
C3_Witness ==
    /\ vbw.loaded
    /\ \E v \in ReferencedInInput :
          InputTotal(v) > 0 /\ DroppedTotal(w_input, v, InputTotal(v)) > 0
    /\ \E v \in ReferencedInInput, i \in DOMAIN w_input.val :
          /\ Cardinality({k \in DOMAIN w_input.val[i] : w_input.val[i][k][1] = v}) = 2
          /\ StoredWeights(vbw.data, v) # <<>>

RootEntry(v) == IF DictHas(v.data, v.rootBone) THEN DictGet(v.data, v.rootBone)
                ELSE [vs |-> <<>>, ws |-> <<>>]

\* C4: built for a mesh of N vertices, every vertex of 0..N-1 that no bone
\* references in the input is in the root bone's entry with weight 1, and every
\* vertex of the mesh is referenced by at least one bone.
C4_UnreferencedToRoot ==
    (vbw.loaded /\ w_count # NoCount) =>
        /\ vbw.vertexCount = w_count
        /\ \A v \in (0..(w_count - 1)) \ ReferencedInInput :
              \E k \in DOMAIN RootEntry(vbw).vs :
                  RootEntry(vbw).vs[k] = v /\ RootEntry(vbw).ws[k] = FOne
        /\ \A v \in 0..(w_count - 1) : StoredWeights(vbw.data, v) # <<>>
        /\ \A v \in 0..(w_count - 1) : vbw.wCounts[v] >= 1

\* the root bone has weights of its own and an unreferenced vertex is added to them
C4_Witness ==
    /\ vbw.loaded /\ w_count # NoCount
    /\ (0..(w_count - 1)) \ ReferencedInInput # {}
    /\ \E k \in DOMAIN RootEntry(vbw).vs : RootEntry(vbw).ws[k] # FOne
    /\ Len(RootEntry(vbw).vs) >= 2

(***************************************************************************)
(* Claims about Skeleton._retarget_weights                                 *)
(***************************************************************************)
\* the weight bone name has at vertex v in the weights data d (0 when none)
WeightAt(d, name, v) ==
    IF DictHas(d, name)
    THEN FSum(Take(DictGet(d, name).ws, PositionsIn(DictGet(d, name).vs, {v})))
    ELSE FZero

SumOver(d, names, v) == FSum([i \in DOMAIN names |-> WeightAt(d, names[i], v)])

StrictlyAscending(s) == \A i \in DOMAIN s : \A j \in DOMAIN s : i < j => s[i] < s[j]

EntryAscending(d, name) == DictHas(d, name) => StrictlyAscending(DictGet(d, name).vs)

RetargetVerts == 0..(RVertexCount - 1)

ReferencingBones == {i \in DOMAIN r_bones : RefsOf(r_bones[i]) # {}}

\* the supplementary sources merged into a bone: those of its row of the
\* mapping table, when the bone's own name is a key of the loaded weights
SupplementarySources(name) ==
    LET rows == {i \in DOMAIN extra_mapping : extra_mapping[i][1] = name}
    IN IF rows # {} /\ DictHas(r_source, name)
       THEN extra_mapping[CHOOSE i \in rows : TRUE][2]
       ELSE <<>>

TotalAt(d, v) == SumOver(d, d.keys, v)

\* C6: after retargeting on a skeleton where some bone declares reference bones,
\* every vertex some bone referenced before is still referenced by a bone with
\* positive weight.
C6_NoVertexLosesInfluence ==
    (r_done /\ HasRetargeting(r_bones)) =>
        \A v \in RetargetVerts :
            FGt(TotalAt(r_source, v), FZero) => FGt(TotalAt(r_vw.data, v), FZero)

(***************************************************************************)
(* Linear blend skinning                                                   *)
(***************************************************************************)
\* the weight bone gives vertex v in the weights data (0 when it gives none)
SkinWeightOf(bone, v) ==
    IF ~DictHas(s_weights, bone) THEN 0
    ELSE IF \E k \in DOMAIN DictGet(s_weights, bone).vs : DictGet(s_weights, bone).vs[k] = v
         THEN DictGet(s_weights, bone).ws[
                 CHOOSE k \in DOMAIN DictGet(s_weights, bone).vs :
                     DictGet(s_weights, bone).vs[k] = v]
         ELSE 0

\* the accumulated weight of vertex v over the bones of the skeleton
TotalWeight(v) == SkinWeightOf("pelvis", v) + SkinWeightOf("upperarm_l", v)

SkinVerts == 0..(SVertexCount - 1)

Skinned == s_result.path # "none" /\ s_result.skinned

IdentityPosed == Skinned /\ \A n \in DOMAIN s_result.pose : s_result.pose[n] = Identity4

\* C7 (as stated): with every bone's local pose matrix the identity, skinning
\* returns the rest position of every vertex whose accumulated weight is above
\* 0.01, whatever that accumulated weight is.
C7_IdentityPoseIsRest ==
    IdentityPosed =>
        \A v \in SkinVerts :
            TotalWeight(v) > UnskinnedBelow => s_result.verts[v] = RestScaled[v]

\* C7 (amended): with every bone's local pose matrix the identity, skinning
\* returns, for every vertex whose accumulated weight is above 0.01, the rest
\* position scaled by the accumulated weight; it is the rest position itself
\* when the accumulated weight is 1.
C7_IdentityPoseIsWeightedRest ==
    IdentityPosed =>
        \A v \in SkinVerts :
            TotalWeight(v) > UnskinnedBelow =>
                /\ s_result.verts[v] = VecScale(TotalWeight(v), RestVertex(v))
                /\ TotalWeight(v) = WUnit => s_result.verts[v] = RestScaled[v]

\* an identity pose skinned a vertex of accumulated weight 1 and another of
\* accumulated weight one half that does not lie at the origin
C7_Witness ==
    /\ IdentityPosed
    /\ \E v \in SkinVerts : TotalWeight(v) = WUnit /\ s_result.verts[v] = RestScaled[v]
    /\ \E v \in SkinVerts :
          /\ 2 * TotalWeight(v) = WUnit
          /\ RestVertex(v) # ZeroVec
          /\ s_result.verts[v] = VecScale(TotalWeight(v), RestVertex(v))

\* the sum over the skeleton's bones of weight times (matrix applied to rest)
BlendOf(v, bone_matrices) ==
    VecAdd(VecScale(SkinWeightOf("pelvis", v),
                    MatApply(bone_matrices["pelvis"], RestVertex(v))),
           VecScale(SkinWeightOf("upperarm_l", v),
                    MatApply(bone_matrices["upperarm_l"], RestVertex(v))))

\* C8: in every code path that skins, a vertex's skinned position is the sum
\* over its bones of weight times (skinning matrix applied to the rest
\* position), never renormalised, and a vertex whose accumulated weight is
\* below 0.01 is output at its rest position.
C8_RawBlendWithRestFallback ==
    Skinned =>
        \A v \in SkinVerts :
            IF TotalWeight(v) < UnskinnedBelow
            THEN s_result.verts[v] = RestScaled[v]
            ELSE s_result.verts[v] = BlendOf(v, s_result.bone_matrices)

\* C8 on the preview endpoint alone, where the fallback is implemented
C8_EndpointRawBlendWithRestFallback ==
    (Skinned /\ s_result.path = "endpoint") => C8_RawBlendWithRestFallback

(***************************************************************************)
(* solve_mesh                                                              *)
(***************************************************************************)
TwoCalls == m_first.called /\ m_last.called

FirstOutput == m_heap[m_first.addr]
LastOutput == m_heap[m_last.addr]

\* the targets of the list that are applied under the factor table
AppliedTargets ==
    {t \in m_targets : t.data.loaded /\ TargetWeight(t.tags, 1, 1, m_factors).relevant}

\* C9 (as stated): whatever the base mesh, the factor table and the target
\* list, two calls that traverse the target list in different orders return
\* the same vertices.
C9_OrderIndependent == TwoCalls => FirstOutput = LastOutput

\* the sums solve_mesh forms when it traverses the list in the given order,
\* computed without rounding
RECURSIVE UnroundedSums(_, _, _)
UnroundedSums(verts, targets, i) ==
    IF i > Len(targets) THEN <<verts>>
    ELSE IF targets[i] \notin AppliedTargets THEN UnroundedSums(verts, targets, i + 1)
    ELSE <<verts>> \o UnroundedSums(
            [v \in DOMAIN verts |->
                IF \E k \in DOMAIN targets[i].data.indices : targets[i].data.indices[k] = v
                THEN VecAdd(verts[v],
                            VecScale(TargetWeight(targets[i].tags, 1, 1, m_factors).weight,
                                     targets[i].data.deltas[
                                        CHOOSE k \in DOMAIN targets[i].data.indices :
                                            /\ targets[i].data.indices[k] = v
                                            /\ \A j \in DOMAIN targets[i].data.indices :
                                                  targets[i].data.indices[j] = v => j <= k]))
                ELSE verts[v]],
            targets, i + 1)

\* every sum formed along the order is a float32: nothing was rounded
ExactAlong(targets) ==
    \A sums \in {UnroundedSums(m_given.base, targets, 1)} :
        \A i \in DOMAIN sums : \A v \in 0..(MVertexCount - 1) : \A c \in 1..3 :
            F32(sums[i][v][c]) = sums[i][v][c]

\* C9 (amended): two calls that traverse the target list in different orders
\* return the same vertices whenever every partial sum along both orders is
\* representable in float32; the accumulation rounds to float32 after every
\* target, so otherwise the outputs can differ by more than 1e-5.
C9_OrderIndependentWhenExact ==
    (TwoCalls /\ ExactAlong(m_first.targets) /\ ExactAlong(m_last.targets))
        => FirstOutput = LastOutput

\* two calls in different orders applied at least two targets moving the same
\* vertex, rounded nothing and returned the same moved vertices
C9_Witness ==
    /\ TwoCalls
    /\ m_first.targets # m_last.targets
    /\ ExactAlong(m_first.targets) /\ ExactAlong(m_last.targets)
    /\ \E t1, t2 \in AppliedTargets :
          /\ t1 # t2
          /\ Range(t1.data.indices) \cap Range(t2.data.indices) # {}
          /\ m_first.targets[1] = t1 /\ m_last.targets[1] = t2
    /\ FirstOutput = LastOutput
    /\ FirstOutput # m_given.base

\* C10: a call leaves the base mesh's vertices, the targets' data and the
\* factor table as they were, and two calls with identical inputs return
\* equal vertices, the second never adding to what the first returned.
C10_NotInPlace ==
    m_first.called =>
        /\ m_heap[BaseAddress] = m_given.base
        /\ m_targets = m_given.targets
        /\ m_factors = m_given.factors
        /\ (m_last.called /\ m_last.targets = m_first.targets) => FirstOutput = LastOutput

\* two calls with the same list moved vertices, returned equal arrays distinct
\* from the base mesh's, and left the base mesh's vertices as given
C10_Witness ==
    /\ TwoCalls
    /\ m_last.targets = m_first.targets
    /\ AppliedTargets # {}
    /\ FirstOutput # m_given.base
    /\ FirstOutput = LastOutput
    /\ m_first.addr # m_last.addr
    /\ m_heap[BaseAddress] = m_given.base

(***************************************************************************)
(* calculate_factors                                                       *)
(***************************************************************************)
FactorsDone == f_factors # NoFactors

InUnit(q) == QLe(QZero, q) /\ QLe(q, QOne)

SumsToOne(a, b, c) == QAdd(a, QAdd(b, c)) = QOne /\ InUnit(a) /\ InUnit(b) /\ InUnit(c)

\* C11: for every slider value in [0,1] the maximum, minimum and average
\* factors of muscle, weight, height and cup size are each in [0,1] and sum
\* to 1, and male + female = 1.
C11_TriplesSumToOne ==
    FactorsDone =>
        /\ SumsToOne(f_factors.maxmuscle, f_factors.minmuscle, f_factors.averagemuscle)
        /\ SumsToOne(f_factors.maxweight, f_factors.minweight, f_factors.averageweight)
        /\ SumsToOne(f_factors.maxheight, f_factors.minheight, f_factors.averageheight)
        /\ SumsToOne(f_factors.maxcup, f_factors.mincup, f_factors.averagecup)
        /\ QAdd(f_factors.male, f_factors.female) = QOne

\* factors were computed for a muscle slider at an end of its range (no
\* average share), a weight slider at the midpoint (all average) and a gender
\* strictly between male and female
C11_Witness ==
    /\ FactorsDone
    /\ f_factors.minmuscle = QOne /\ f_factors.averagemuscle = QZero
    /\ f_factors.averageweight = QOne
    /\ f_factors.maxheight = QOne
    /\ QLt(QZero, f_factors.male) /\ QLt(QZero, f_factors.female)

\* C12: for every normalised age in [0,1], below, at and above the midpoint,
\* the baby, child, young and old factors are each in [0,1] and sum to 1.
C12_AgeFactorsSumToOne ==
    FactorsDone =>
        /\ QAdd(QAdd(f_factors.baby, f_factors.child),
                QAdd(f_factors.young, f_factors.old)) = QOne
        /\ InUnit(f_factors.baby) /\ InUnit(f_factors.child)
        /\ InUnit(f_factors.young) /\ InUnit(f_factors.old)

\* factors were computed for an age below the midpoint where the baby, child
\* and young factors are all positive
C12_Witness ==
    /\ FactorsDone
    /\ QLt(f_input.age, <<1, 2>>)
    /\ QLt(QZero, f_factors.baby)
    /\ QLt(QZero, f_factors.child)
    /\ QLt(QZero, f_factors.young)

(***************************************************************************)
(* scan_targets and load_target_data                                       *)
(***************************************************************************)
\* the file an entry was made from
FileOfEntry(entry) == CHOOSE f \in t_files : f.name = entry.path

\* the tags of an entry that factors can weight
TagCount(entry) == Len(entry.tags.keys)

\* C13: every target scan_targets keeps carries at least one tag: one from
\* macrodetails a recognised tag, one from breast a cup tag, one from genitals
\* a tag whose name begins with 'penis'; so solve_mesh weights no scanned
\* target by the empty product.
C13_KeptTargetsAreTagged ==
    \A i \in DOMAIN t_targets :
        /\ TagCount(t_targets[i]) >= 1
        /\ t_targets[i].path.ext = ".target"
        /\ t_targets[i].path.folder = "breast" => DictHas(t_targets[i].tags, "cup")
        /\ t_targets[i].path.folder = "genitals" =>
              \/ DictHas(t_targets[i].tags, "penis_len")
              \/ DictHas(t_targets[i].tags, "penis_circ")
              \/ DictHas(t_targets[i].tags, "penis_test")
        /\ \A j \in DOMAIN t_targets[i].tags.keys :
              \/ t_targets[i].tags.val[j].is_true
              \/ t_targets[i].tags.val[j].tag # ""

\* a scan finished that kept a file and dropped a breast or genitals file
\* which has a tag but not the tag its folder asks for
C13_Witness ==
    /\ t_pc = "ready"
    /\ Len(t_targets) >= 1
    /\ \E f \in t_files :
          /\ f.name.folder \in {"breast", "genitals"}
          /\ f.name.ext = ".target"
          /\ Len(ParseFilename(f.name.words).keys) >= 1
          /\ \A i \in DOMAIN t_targets : t_targets[i].path # f.name

\* a line of a target file is well formed: not blank, not a comment, four
\* fields, an integer then three numbers
WellFormed(line) ==
    /\ ~line.blank /\ ~line.comment
    /\ Len(line.fields) = 4
    /\ line.fields[1].is_int
    /\ line.fields[2].is_float /\ line.fields[3].is_float /\ line.fields[4].is_float

\* the positions of the well-formed lines of a file, ascending
WellFormedLines(file) ==
    PositionsIn(file.lines, {l \in Range(file.lines) : WellFormed(l)})

\* the scanned targets that hold data
WithData == PositionsIn(t_targets, {t \in Range(t_targets) : t.data.loaded})

\* C14: load_target_data keeps exactly the well-formed lines of a file, in
\* order, skipping the others; a file with no well-formed line, or one that
\* cannot be read, gives None, and such a target adds nothing to what
\* solve_mesh returns, which does not raise.
C14_MalformedLinesSkipped ==
    /\ \A i \in DOMAIN t_first :
          IF FileOfEntry(t_targets[i]).readable
             /\ WellFormedLines(FileOfEntry(t_targets[i])) # <<>>
          THEN /\ t_first[i].loaded
               /\ t_first[i].indices =
                     [k \in DOMAIN WellFormedLines(FileOfEntry(t_targets[i])) |->
                         FileOfEntry(t_targets[i]).lines[
                             WellFormedLines(FileOfEntry(t_targets[i]))[k]].fields[1].value]
               /\ Len(t_first[i].deltas) = Len(t_first[i].indices)
          ELSE t_first[i] = NoData
    /\ t_out.called =>
          /\ ~t_out.raised
          /\ t_out.verts = ApplyTargets(ScanBaseMesh, Take(t_targets, WithData), 1,
                                        t_out.factors)

\* solve_mesh ran on a scanned list holding a target loaded from a file
\* with malformed lines among valid ones and a target without data
C14_Witness ==
    /\ t_out.called
    /\ t_out.verts # ScanBaseMesh
    /\ \E i, j \in DOMAIN t_targets :
          /\ t_targets[i].data.loaded
          /\ Len(t_targets[i].data.indices) < Len(FileOfEntry(t_targets[i]).lines) - 2
          /\ ~t_targets[j].data.loaded

\* C15: after the first load_target_data call on an entry, whatever its
\* outcome, a later call on the entry does not open the file, returns what
\* the first call returned and leaves the entry as it was.
C15_LaterLoadsAreNoOps ==
    t_call.called =>
        /\ ~t_call.opened
        /\ t_call.result = t_first[t_call.index]
        /\ t_targets[t_call.index] = t_call.before

\* the part of C15 that holds: a later call on an entry whose first call
\* loaded data is a no-op
C15_LaterLoadsOfDataAreNoOps ==
    (t_call.called /\ t_first[t_call.index].loaded) =>
        /\ ~t_call.opened
        /\ t_call.result = t_first[t_call.index]
        /\ t_targets[t_call.index] = t_call.before

(***************************************************************************)
(* solve_ik                                                                *)
(***************************************************************************)
\* the end effector named is a bone of the skeleton
EffectorExists == k_call.bone_name \in Range(IKBoneNames)

\* the bones a chain of the length asked for holds
ChainBones(name, chain_length) ==
    IF chain_length = 1 \/ name = "root" THEN {name}
    ELSE IF chain_length = 2 \/ name = "mid" THEN {name, IKParent(name)}
    ELSE {"tip", "mid", "root"}

C16_WithinCap ==
    k_pc \in {"pass", "bone", "extract", "done"} /\ EffectorExists =>
        /\ k_iteration <= k_call.max_iterations
        /\ k_rotations <= k_call.max_iterations * Len(k_chain)
        /\ k_pc = "done" =>
            /\ k_result.returned
            /\ DOMAIN k_result.rotations = ChainBones(k_call.bone_name, k_call.chain_length)
            /\ \A n \in DOMAIN k_result.rotations : Len(k_result.rotations[n]) = 3

\* how far a call has come: every step of solve_ik moves it forward, and it
\* stops at the return
Position ==
    CASE k_pc = "idle" -> 0
      [] k_pc = "pass" -> 1 + k_iteration * (Len(IKBoneNames) + 2)
      [] k_pc = "bone" -> 1 + (k_iteration - 1) * (Len(IKBoneNames) + 2) + k_idx
      [] k_pc = "extract" -> 1 + (k_call.max_iterations + 1) * (Len(IKBoneNames) + 2)
      [] k_pc = "done" -> 2 + (k_call.max_iterations + 1) * (Len(IKBoneNames) + 2)

\* C16: for an existing end effector, a chain length of at least 1 and any
\* iteration cap, solve_ik terminates (every step brings it nearer to its
\* return): it never begins more than max_iterations passes nor turns a bone
\* more than max_iterations times the chain length times, and what it returns
\* holds one Euler triple for each bone of the chain, whether it left the loop
\* on the tolerance or on the cap.
C16_TerminatesWithinCap == [][Position' > Position /\ C16_WithinCap']_vars

\* a call that ran into the cap, two passes over a chain of two bones, one of
\* them turned, and the end effector still away from the target
C16_Witness ==
    /\ k_pc = "done"
    /\ k_call.max_iterations = 2
    /\ k_iteration = 2
    /\ Len(k_chain) = 2
    /\ k_rotations = 1
    /\ ~Converged(k_call.target_pos, k_cur)
    /\ DOMAIN k_result.rotations = {"tip", "mid"}

\* C17: called with an end effector name that is not a bone of the skeleton,
\* solve_ik returns an empty dict and every bone's local, global and skinning
\* matrix is as it was before the call.
C17_UnknownEffectorIsNoOp ==
    k_pc = "done" /\ ~EffectorExists =>
        /\ k_result = Returned(EmptyResult)
        /\ k_bones = k_before

\* the call returned for an unknown name on the mock skeleton as constructed,
\* whose global matrices an update would have changed
C17_Witness ==
    /\ k_pc = "done"
    /\ k_call.bone_name = "nosuch"
    /\ k_bones = MockBones
    /\ UpdateAll(k_bones) # k_bones

\* the case of test_ik_convergence and test_ik_integration
PlanarCase ==
    /\ k_pc = "done"
    /\ k_call.bone_name = "tip"
    /\ k_call.target_pos = <<10, 10, 0>>
    /\ k_call.chain_length = 2

\* the squared distance the tests measure: every bone updated, then the tip's
\* rest head through its skinning matrix, against the target
FinalDistSq ==
    VecDot(VecSub(EffectorPos(UpdateAll(k_bones), "tip"), k_call.target_pos),
           VecSub(EffectorPos(UpdateAll(k_bones), "tip"), k_call.target_pos))

\* C19: on the planar chain of two segments of length 10 with the end effector
\* head at (0,20,0) and the target (10,10,0), chain length 2, the end effector
\* ends within 1.0 of the target with a cap of 20 iterations and within 0.5
\* with the default cap of 10.
C19_PlanarChainConverges ==
    PlanarCase =>
        /\ k_call.max_iterations = TestMaxIterations => FinalDistSq < 1
        /\ k_call.max_iterations = DefaultMaxIterations => 4 * FinalDistSq < 1

\* the test's call returned after the mid bone was turned once
C19_Witness ==
    /\ PlanarCase
    /\ k_call.max_iterations = TestMaxIterations
    /\ k_before = UpdateAll(MockBones)
    /\ k_rotations = 1
    /\ k_iteration = 2

(***************************************************************************)
(* PoseTransfer.apply_pose                                                 *)
(***************************************************************************)
\* the direction a bone points in once posed: its rest head-to-tail
\* direction as the bone's skinning matrix carries it
PosedDirection(bone) ==
    MatDirection(bone.matPoseVerts, Normalised(VecSub(bone.tailPos, bone.headPos)))

\* two directions are parallel (the same or opposite)
Parallel(a, b) == Cross(a, b) = <<0, 0, 0>> /\ VecDot(a, b) # 0

\* a chain entry's bone points along its landmark segment, Y negated
EntryAligned(entry) ==
    Parallel(PosedDirection(p_bones[entry[1]]),
                  Normalised(TargetUser(p_data, entry[2], entry[3])))

\* C18: after apply_pose, for every chain entry whose landmarks and bone are
\* present, the bone's posed global direction is parallel to the normalised
\* landmark direction with the Y sign flipped, also for an entry whose parent
\* bone an earlier entry has rotated.
C18_BonesAlignedWithLandmarks ==
    p_pc = "done" =>
        \A i \in 1..Len(CHAINS) :
            ~EntrySkipped(p_bones, p_data, CHAINS[i]) => EntryAligned(CHAINS[i])

\* the entries whose parent bone no entry has turned are aligned
C18_UnturnedParentsAligned ==
    p_pc = "done" =>
        \A i \in 1..Len(CHAINS) :
            /\ ~EntrySkipped(p_bones, p_data, CHAINS[i])
            /\ p_bones[ArmParent(CHAINS[i][1])].matPose = Identity4
            => EntryAligned(CHAINS[i])

(***************************************************************************)
(* The bone list and the update sweep                                      *)
(***************************************************************************)
\* the bones that come before position i of a list
Before(blist, i) == {blist[j] : j \in 1..(i - 1)}

\* following the parent links from a bone ends at a bone without parent
RECURSIVE LinksEnd(_, _, _)
LinksEnd(skelBones, name, fuel) ==
    IF name = NoParent THEN TRUE
    ELSE IF fuel = 0 THEN FALSE
    ELSE LinksEnd(skelBones, skelBones[name].parent, fuel - 1)

\* a bone of the swept skeleton has the parent its definition names
LinkedAsDefined(name) ==
    u_skel.bones[name].parent = input_bones[name]

\* C20: in a skeleton built by fromFile, and in its copy, the bone list holds
\* every bone once, each after its parent (the parent its definition names),
\* and the parent links end at a root; and after one sweep of update() in
\* list order, whatever the local poses, each bone's global pose is its
\* parent's global pose times its rest-relative matrix times its local pose
\* (rest-relative times local pose for a root).
C20_SweepInListOrderIsConsistent ==
    u_pc = "swept" =>
        /\ Range(u_skel.boneslist) = DOMAIN u_skel.bones
        /\ Len(u_skel.boneslist) = Cardinality(DOMAIN u_skel.bones)
        /\ \A i \in DOMAIN u_skel.boneslist :
              /\ LinkedAsDefined(u_skel.boneslist[i])
              /\ u_skel.bones[u_skel.boneslist[i]].parent \in
                     Before(u_skel.boneslist, i) \cup {NoParent}
              /\ LinksEnd(u_skel.bones, u_skel.boneslist[i], Len(u_skel.boneslist))
              /\ u_skel.mats[u_skel.boneslist[i]].matPoseGlobal =
                     GlobalUnder(u_skel.mats, u_skel.boneslist[i],
                                 u_skel.bones[u_skel.boneslist[i]].parent)

\* a copy of a chain of all the bones, defined child first, swept with a
\* quarter turn on every bone
C20_Witness ==
    /\ u_pc = "swept"
    /\ u_path = "copy"
    /\ Len(u_skel.boneslist) = NBones
    /\ Len(u_skel.roots) = 1
    /\ \E b \in DOMAIN u_skel.bones :
          Cardinality(AncestorNames(input_bones, b, NBones)) = NBones - 1
    /\ input_bones[input_keys[1]] # NoParent
    /\ \A n \in DOMAIN u_skel.mats : u_skel.mats[n].matPose # Identity4

(***************************************************************************)
(* solve_ik: the chain                                                     *)
(***************************************************************************)
\* the number of bones on the path from a bone up to its root
RECURSIVE PathLength(_)
PathLength(name) ==
    IF IKParent(name) = NoParent THEN 1 ELSE 1 + PathLength(IKParent(name))

Min(a, b) == IF a < b THEN a ELSE b

\* C21: for an end effector the skeleton holds and a chain length of at least
\* 1, the chain starts with the end effector, every further element is the
\* parent of the one before, and the chain is as long as the smaller of the
\* chain length and the number of bones from the end effector up to its root.
C21_ChainWalksUpParents ==
    k_pc \in {"pass", "bone", "extract", "done"} /\ EffectorExists
        /\ k_call.chain_length >= 1 =>
        /\ k_chain[1] = k_call.bone_name
        /\ \A i \in 2..Len(k_chain) : k_chain[i] = IKParent(k_chain[i - 1])
        /\ Len(k_chain) = Min(k_call.chain_length, PathLength(k_call.bone_name))

\* a chain cut by the chain length before the root: two of the three bones
C21_Witness ==
    /\ k_pc = "done"
    /\ k_call.bone_name = "tip"
    /\ k_call.chain_length = 2
    /\ k_chain = <<"tip", "mid">>

(***************************************************************************)
(* solve_ik: what a call writes                                            *)
(***************************************************************************)
\* C22: solve_ik changes the local pose matrix of chain bones only: a bone
\* outside the chain keeps its local pose matrix, and every bone, chain bones
\* included, has the translation column of its local pose matrix after the
\* call that it had before the call. This holds after every step of the call,
\* and so at its return.
C22_OnlyChainRotationsChange ==
    k_pc \in {"pass", "bone", "extract", "done"} =>
        \A n \in DOMAIN k_bones :
            /\ n \notin Range(k_chain) => k_bones[n].matPose = k_before[n].matPose
            /\ Column(k_bones[n].matPose, 4) = Column(k_before[n].matPose, 4)

\* a call returned after turning a chain bone whose local pose carries a
\* translation, with a bone outside the chain
C22_Witness ==
    /\ k_pc = "done"
    /\ k_rotations > 0
    /\ \E n \in Range(k_chain) :
          /\ k_bones[n].matPose # k_before[n].matPose
          /\ Column(k_before[n].matPose, 4) # <<0, 0, 0>>
    /\ \E n \in DOMAIN k_bones : n \notin Range(k_chain)

(***************************************************************************)
(* solve_ik: no step reads a stale matrix                                  *)
(***************************************************************************)
\* every bone's global matrix is its parent's global matrix times its
\* rest-relative matrix times its local pose, and its skinning matrix is the
\* global matrix times the inverse of its rest matrix
IKFresh(skelBones) ==
    \A n \in DOMAIN skelBones :
        /\ skelBones[n].matPoseGlobal = IKPoseGlobal(skelBones, n)
        /\ skelBones[n].matPoseVerts =
               MatMul(skelBones[n].matPoseGlobal, MatInv(skelBones[n].matRestGlobal))

\* C23: whenever solve_ik reads a position to decide or compute a rotation
\* (the convergence check of a pass, the pivot and the effector position at a
\* chain bone), the global and skinning matrices of every bone reflect every
\* local rotation applied so far, and the effector position in hand is the one
\* those matrices give.
C23_ReadsSeeEveryRotation ==
    /\ k_pc = "bone" \/ (k_pc = "extract" /\ k_iteration > 0) =>
           /\ IKFresh(k_bones)
           /\ k_cur = EffectorPos(k_bones, k_chain[1])
    /\ k_pc = "bone" /\ k_idx = 1 => ~Converged(k_call.target_pos, k_cur)
    /\ k_pc = "extract" /\ k_iteration > 0 /\ k_idx = 0 =>
           Converged(k_call.target_pos, k_cur)

\* a chain bone is about to be read after an earlier bone of the same pass
\* was turned, on a skeleton that was stale when the call began
C23_Witness ==
    /\ k_pc = "bone"
    /\ k_idx > 1
    /\ k_idx <= Len(k_chain)
    /\ k_rotations > 0
    /\ ~IKFresh(k_before)

(***************************************************************************)
(* apply_pose: the order of the chain list                                 *)
(***************************************************************************)
\* the parent of a bone of the chain list: the modelled skeleton's parent for
\* the bones it holds, the limb above for the others
ChainBoneParent(name) ==
    CASE name \in Range(ArmBoneNames) -> ArmParent(name)
      [] name = "upperarm_r" -> "clavicle_r"
      [] name = "lowerarm_r" -> "upperarm_r"
      [] name = "thigh_l" -> "pelvis"
      [] name = "calf_l" -> "thigh_l"
      [] name = "thigh_r" -> "pelvis"
      [] name = "calf_r" -> "thigh_r"

\* a bone and all its ancestors have the global matrix their local poses give
RECURSIVE AncestorsFresh(_, _)
AncestorsFresh(skelBones, name) ==
    \/ name = NoParent
    \/ /\ skelBones[name].matPoseGlobal = GlobalUnder(skelBones, name, ArmParent(name))
       /\ AncestorsFresh(skelBones, ArmParent(name))

\* C24: the chain list is processed root-to-tip: an entry whose bone has its
\* parent in the chain list comes after the parent's entry, and when an entry
\* is processed the global pose matrix of its parent bone is up to date with
\* every local pose assigned so far to the parent and to its ancestors.
C24_ParentsPosedFirst ==
    /\ \A i \in DOMAIN CHAINS : \A j \in DOMAIN CHAINS :
          CHAINS[i][1] = ChainBoneParent(CHAINS[j][1]) => i < j
    /\ p_pc = "chains" /\ p_idx <= Len(CHAINS)
          /\ ~EntrySkipped(p_bones, p_data, CHAINS[p_idx]) =>
          AncestorsFresh(p_bones, ArmParent(CHAINS[p_idx][1]))

\* the lower arm's entry is about to be processed after the upper arm's entry
\* gave the upper arm a turn
C24_Witness ==
    /\ p_pc = "chains"
    /\ p_idx = 2
    /\ ~EntrySkipped(p_bones, p_data, CHAINS[p_idx])
    /\ p_aligned = <<"upperarm_l">>
    /\ p_bones["upperarm_l"].matPose # Identity4

(***************************************************************************)
(* solve_mesh: the early skip                                              *)
(***************************************************************************)
\* the product of the factors of all the tags of a target: a boolean tag
\* reads 'universal', a tag value the table lacks reads 0
RECURSIVE FullProduct(_, _, _)
FullProduct(tags, i, factors) ==
    IF i > Len(tags.keys) THEN QOne
    ELSE QMul(IF tags.val[i].is_true
              THEN (IF "universal" \in DOMAIN factors THEN factors["universal"] ELSE QOne)
              ELSE (IF FactorName(tags.val[i].tag) \in DOMAIN factors
                    THEN factors[FactorName(tags.val[i].tag)] ELSE QZero),
              FullProduct(tags, i + 1, factors))

CacheComplete ==
    /\ l_cache.base_mesh # "None"
    /\ l_cache.targets # "None"
    /\ l_files.mhskel => l_cache.skeleton # "None"

\* C26: whenever a call of _ensure_data_loaded returns normally the cache
\* holds the base mesh and the target list, and the skeleton when a
\* skeleton file exists, for every interleaving of two callers and after
\* an earlier call that failed part-way.
C26_ReturnMeansLoaded ==
    \A c \in Callers : l_pc[c] = "returned" => CacheComplete

\* what the guard at line 30 does give: the base mesh is there at every
\* normal return
C26_ReturnMeansBaseMesh ==
    \A c \in Callers : l_pc[c] = "returned" => l_cache.base_mesh # "None"

(***************************************************************************)
(* Claims about Skeleton.copy                                              *)
(***************************************************************************)

\* the rest matrices updateJointPositions gives the skeleton fromFile built
OriginalRest ==
    BuildAll(FreshMatrices(DOMAIN bones), bones, boneslist, 1, TRUE)

\* the copy has the bones of the original, in its order, under its parents
SameTopology ==
    /\ u_skel.boneslist = boneslist
    /\ u_skel.roots = roots
    /\ DOMAIN u_skel.bones = DOMAIN bones
    /\ \A n \in DOMAIN bones : u_skel.bones[n].parent = bones[n].parent

\* C27: a skeleton returned by Skeleton.copy has the same bones in the same
\* order with the same parents as the original, and updateJointPositions on
\* the copy gives each bone the same head position, tail position and rest
\* matrices as updateJointPositions on the original.
C27_CopyHasSameRestGeometry ==
    (u_pc = "swept" /\ u_path = "copy") =>
        /\ SameTopology
        /\ \A n \in DOMAIN bones :
              /\ JointPosition(JointHead(n), FALSE) = JointPosition(JointHead(n), TRUE)
              /\ JointPosition(JointTail(n), FALSE) = JointPosition(JointTail(n), TRUE)
              /\ u_skel.mats[n].matRestGlobal = OriginalRest[n].matRestGlobal
              /\ u_skel.mats[n].matRestRelative = OriginalRest[n].matRestRelative

\* the part of C27 that the copy does keep: bones, order and parents
C27_CopyHasSameTopology ==
    (u_pc = "swept" /\ u_path = "copy") => SameTopology

\* no bone from this one up to the root has a local pose
RECURSIVE AncestorsUnturned(_, _)
AncestorsUnturned(skelBones, name) ==
    \/ name = NoParent
    \/ /\ skelBones[name].matPose = Identity4
       /\ AncestorsUnturned(skelBones, ArmParent(name))

(***************************************************************************)
(* Claims about the matrices apply_pose leaves for the skinning step       *)
(***************************************************************************)

\* a bone's global pose and skinning matrix are what Bone.update would give
\* them now
BoneUpToDate(skelBones, name) ==
    /\ skelBones[name].matPoseGlobal = GlobalUnder(skelBones, name, ArmParent(name))
    /\ skelBones[name].matPoseVerts =
          SkinMatrix(skelBones[name].matRestGlobal, skelBones[name].matPoseGlobal)

\* C28: when apply_pose returns, every bone of the skeleton, including the
\* descendants of posed bones that are in no chain entry, has a global pose
\* equal to its parent's global pose times its rest-relative matrix times its
\* local pose, and a skinning matrix derived from that global pose.
C28_NoStaleMatrixOnReturn ==
    p_pc = "done" =>
        \A n \in Range(ArmBoneNames) : BoneUpToDate(p_bones, n)

\* the bones above every turned bone, and the turned bones whose ancestors
\* were not turned after them, are up to date on return
C28_BonesWithoutTurnedAncestorUpToDate ==
    p_pc = "done" =>
        \A n \in Range(ArmBoneNames) :
            (ArmParent(n) = NoParent \/ AncestorsUnturned(p_bones, ArmParent(n)))
            => BoneUpToDate(p_bones, n)

(***************************************************************************)
(* Claims about the preview endpoint and the cached skeleton               *)
(***************************************************************************)

\* the skeleton as the endpoint leaves it when a manual_pose request is the
\* first one served on the skeleton the loader cached
FirstPosed(manual_pose) ==
    IF manual_pose # <<>> THEN EndpointPosed(BuiltBones, manual_pose) ELSE BuiltBones

\* the vertices returned to such a first request
FirstVerts(manual_pose) ==
    IF manual_pose # <<>> THEN EndpointSkin(s_weights, FirstPosed(manual_pose))
    ELSE RestScaled

\* C29: the vertices and bone transforms a preview request returns are a
\* function of its payload alone: a request returns what the same payload
\* returns when it is the first request served, whatever pose requests were
\* served on the cached skeleton before it.
C29_ResponseDependsOnPayloadOnly ==
    s_result.path = "endpoint" =>
        /\ s_result.verts = FirstVerts(s_result.request)
        /\ s_result.bone_matrices = BoneMatrices(FirstPosed(s_result.request))

\* a request that gives every bone of the skeleton a local pose returns the
\* same whatever was served before
C29_FullPoseDependsOnPayloadOnly ==
    (s_result.path = "endpoint" /\ DOMAIN s_result.request = Range(SkinBoneNames)) =>
        /\ s_result.verts = FirstVerts(s_result.request)
        /\ s_result.bone_matrices = BoneMatrices(FirstPosed(s_result.request))

(***************************************************************************)
(* Claims about the total weight of a vertex after retargeting             *)
(***************************************************************************)

\* the places where the weights of a source bone go: the rig bones that
\* reference it, the rig bone of its own name that declares no references,
\* and the rig bones whose supplementary sources hold it
SourceUses(src) ==
    {<<i, "reference">> : i \in {j \in DOMAIN r_bones : src \in RefsOf(r_bones[j])}}
    \cup {<<i, "own">> : i \in {j \in DOMAIN r_bones :
                                  RefsOf(r_bones[j]) = {} /\ r_bones[j].name = src}}
    \cup {<<i, "supplement">> :
              i \in {j \in DOMAIN r_bones :
                        src \in Range(SupplementarySources(r_bones[j].name))}}

\* C30: when the weights of every vertex sum to 1 before retargeting, no
\* vertex has a total weight across all bones above 1 after it: no source
\* bone's weight is counted more than once for a vertex.
C30_TotalStaysAtMostOne ==
    r_done =>
        \A v \in RetargetVerts :
            FEq(TotalAt(r_source, v), FOne) => ~FGt(TotalAt(r_vw.data, v), FOne)

\* with a rig and weights where every source bone goes to one place at most,
\* the total stays at 1 or below
C30_SourcesUsedOnceStayAtMostOne ==
    (r_done /\ \A k \in DOMAIN r_source.keys :
                  Cardinality(SourceUses(r_source.keys[k])) <= 1) =>
        \A v \in RetargetVerts : ~FGt(TotalAt(r_vw.data, v), FOne)

====
